---- MODULE Spec2Model ----
(***************************************************************************)
(* A model of the stock_screener ingest-to-snapshot engine:                *)
(*   - collectors/naver_ratio_client.py : the concurrent reserve-ratio     *)
(*     scraper (SpecScraper)                                               *)
(*   - storage/repository.py, storage/db.py : the SQLite cache, its        *)
(*     sessions, upserts and snapshot replacement (Spec)                   *)
(*   - pipelines/daily_batch.py : the snapshot-only and reserve-only       *)
(*     sub-pipelines (SpecPipeline)                                        *)
(*   - storage/db.py init_db : schema creation and evolution (SpecInitDb)  *)
(* Numbers with two decimals are held in hundredths (1,234.56 is 123456).  *)
(* An optional value is a sequence: <<>> is None / NULL, <<v>> is v.       *)
(***************************************************************************)
EXTENDS Integers, Sequences, FiniteSets, TLC

VARIABLES
    \* ---- NaverRatioCollector.latest_reserve_ratio ----
    tickers,               \* the input ticker list
    max_workers,           \* NaverRatioCollector.max_workers
    save_parse_miss_html,  \* NaverRatioCollector.save_parse_miss_html
    task,                  \* per submitted future: position and result of _collect_one
    html_sample_saved,     \* the nonlocal flag of latest_reserve_ratio
    html_sample_lock,      \* holder of html_sample_lock (0: free)
    sample_writes,         \* every write _save_html_sample has made, in order
    rows,                  \* the dict rows, as its items in insertion order
    counters,              \* failed_fetch, no_data, parse_error, done, parse_issue_examples
    scr_pc,                \* "collecting" | "returned"
    frame,                 \* the returned DataFrame, as its rows in order
    \* ---- the SQLite cache ----
    ticker_master, prices_daily, cap_daily, fundamental_daily, snapshot_metrics,
    table_info,            \* the columns of snapshot_metrics (PRAGMA table_info)
    now,                   \* CURRENT_TIMESTAMP
    txn,                   \* the open db_session of the writer
    call,                  \* the last finished Repository / pipeline call and its outcome
    lastWrite,             \* per table and key, the non-key values of the latest applied write
    observed,              \* what the last load_snapshot of a reader returned
    init_pc,               \* position of init_db
    \* ---- DailyBatchPipeline.run and the collectors' retry loops ----
    run,                   \* position, inputs and bookkeeping of run()
    fetch,                 \* NaverRatioCollector._fetch_html: its loop and what it did
    retry,                 \* PykrxCollector._retry: its loop and what it did
    metric,                \* a price window handed to build_snapshot and the row it gave
    calc                   \* a call of a side-effect-free function: its arguments and result

scraperVars == <<tickers, max_workers, save_parse_miss_html, task, html_sample_saved,
                 html_sample_lock, sample_writes, rows, counters, scr_pc, frame>>
dbVars == <<ticker_master, prices_daily, cap_daily, fundamental_daily, snapshot_metrics>>
storeVars == <<dbVars, table_info, now, txn, call, lastWrite, observed, init_pc>>
auxVars == <<run, fetch, retry, metric, calc>>
vars == <<scraperVars, storeVars, auxVars>>

(***************************************************************************)
(* Generic helpers                                                         *)
(***************************************************************************)
None == <<>>
Some(v) == <<v>>

RECURSIVE SeqsUpTo(_, _)
SeqsUpTo(S, n) ==
    IF n = 0 THEN {<<>>}
    ELSE LET shorter == SeqsUpTo(S, n - 1)
         IN shorter \cup {Append(s, x) : s \in {t \in shorter : Len(t) = n - 1}, x \in S}

RECURSIVE Concat(_)
Concat(ss) == IF ss = <<>> THEN <<>> ELSE Head(ss) \o Concat(Tail(ss))

\* run(), _fetch_html, _retry and build_snapshot are not in progress (the
\* specifications of the other components).
IdleRun == [pc |-> "idle"]
IdleFetch == [pc |-> "idle"]
IdleRetry == [pc |-> "idle"]
IdleMetric == [pc |-> "idle"]
IdleCalc == [pc |-> "idle"]
InitAuxIdle ==
    /\ run = IdleRun
    /\ fetch = IdleFetch
    /\ retry = IdleRetry
    /\ metric = IdleMetric
    /\ calc = IdleCalc

(***************************************************************************)
(* The scraper: pages and _extract_latest_reserve_ratio_with_status        *)
(***************************************************************************)
\* A numeric literal matched by -?\d+(?:,\d{3})*(?:\.\d+)? : its sign, its
\* comma-separated digit groups and its fraction in hundredths.
Lit(neg, groups, frac) == [neg |-> neg, groups |-> groups, frac |-> frac]

RECURSIVE GroupsValue(_)
GroupsValue(groups) ==
    IF groups = <<>> THEN 0
    ELSE GroupsValue(SubSeq(groups, 1, Len(groups) - 1)) * 1000 + groups[Len(groups)]

\* float(raw.replace(",", "")), in hundredths
ParseFloat(raw) ==
    LET magnitude == GroupsValue(raw.groups) * 100 + raw.frac
    IN IF raw.neg THEN 0 - magnitude ELSE magnitude

RangeLow == 0 - 100000
RangeHigh == 10000000

InRangeClosed(v) == RangeLow <= v /\ v <= RangeHigh

RECURSIVE _parse_valid_numbers(_)
_parse_valid_numbers(raw_values) ==
    IF raw_values = <<>> THEN <<>>
    ELSE LET v == ParseFloat(Head(raw_values))
         IN (IF InRangeClosed(v) THEN <<v>> ELSE <<>>) \o _parse_valid_numbers(Tail(raw_values))

\* The first value, whatever its sign.
FirstKept(values) == values[1]

\* positives[0] if positives else values[0]
FirstPositiveElseFirst(values) ==
    LET positives == SelectSeq(values, LAMBDA v : v > 0)
    IN IF positives # <<>> THEN positives[1] ELSE values[1]

\* A <td> cell after tag stripping and strip(): empty, a single "-", or other
\* text holding the numeric literals nums.
Cell(kind, nums) == [kind |-> kind, nums |-> nums]
IsBlankCell(c) == c.kind \in {"empty", "dash"}

RECURSIVE RowNumbers(_)
RowNumbers(cells) ==
    IF cells = <<>> THEN <<>> ELSE Head(cells).nums \o RowNumbers(Tail(cells))

RECURSIVE FallbackValues(_)
FallbackValues(snippets) ==
    IF snippets = <<>> THEN <<>>
    ELSE _parse_valid_numbers(Head(snippets).tag_numbers)
         \o _parse_valid_numbers(Head(snippets).nearby_numbers)
         \o FallbackValues(Tail(snippets))

\* A page: whether the <tr><th>marker</th>...</tr> row matches and its cells,
\* and for each marker found by html.find its snippet's number matches.
Page(row_match, cells, snippets) ==
    [row_match |-> row_match, cells |-> cells, snippets |-> snippets, blocked_markers |-> {}]

\* _is_blocked_response: any(marker in html for marker in blocked_markers);
\* two of the four markers stand for the list here
BlockedMarkers == {"Access Denied", "abnormal access"}
\* A response is never taken for a blocked one.
NeverBlocked(html) == FALSE
_is_blocked_response(html) == html.blocked_markers \cap BlockedMarkers # {}

_extract_latest_reserve_ratio_with_status(html) ==
    IF html.row_match
    THEN IF html.cells # <<>> /\ \A i \in 1..Len(html.cells) : IsBlankCell(html.cells[i])
         THEN [ratio |-> None, status |-> "no_data"]
         ELSE LET values == _parse_valid_numbers(RowNumbers(html.cells))
              IN IF values # <<>>
                 THEN [ratio |-> Some(FirstPositiveElseFirst(values)), status |-> "success"]
                 ELSE [ratio |-> None, status |-> "parse_error"]
    ELSE IF html.snippets = <<>>
         THEN [ratio |-> None, status |-> "marker_missing"]
         ELSE LET values == FallbackValues(html.snippets)
              IN IF values = <<>>
                 THEN [ratio |-> None, status |-> "parse_error"]
                 ELSE [ratio |-> Some(FirstPositiveElseFirst(values)), status |-> "success"]

\* The pages the portal serves in this model.
PageValue == Page(TRUE, <<Cell("text", <<Lit(FALSE, <<1, 234>>, 56)>>),
                          Cell("text", <<Lit(FALSE, <<1, 111>>, 11)>>)>>, <<>>)
PageLatest == Page(TRUE, <<Cell("text", <<Lit(FALSE, <<133, 158>>, 88)>>),
                           Cell("text", <<Lit(FALSE, <<89, 793>>, 21)>>)>>, <<>>)
PageBlank == Page(TRUE, <<Cell("empty", <<>>), Cell("dash", <<>>)>>, <<>>)
PageNoCells == Page(TRUE, <<>>, <<>>)
PageNoMarker == Page(FALSE, <<>>, <<>>)
PageTextPattern == Page(FALSE, <<>>,
                        <<[tag_numbers |-> <<>>, nearby_numbers |-> <<Lit(FALSE, <<2, 345>>, 67)>>]>>)
Pages == {PageValue, PageLatest, PageBlank, PageNoCells, PageNoMarker, PageTextPattern}

\* The throttling page of the portal
BlockedPage == [Page(FALSE, <<>>, <<>>) EXCEPT !.blocked_markers = {"Access Denied"}]

\* _fetch_html returns a page, or None once its attempts are exhausted.
FetchResults == {None} \cup {Some(p) : p \in Pages}
\* The exceptions _fetch_html lets through: its except clause names URLError,
\* TimeoutError and OSError only. raw.decode(charset) raises LookupError for
\* a charset label without a codec; resp.read() and getresponse() raise
\* http.client.HTTPException (IncompleteRead, BadStatusLine).
FetchRaises == {"LookupError", "HTTPException"}

(***************************************************************************)
(* The scraper: latest_reserve_ratio                                       *)
(***************************************************************************)
parse_miss_html_path == "artifacts/naver_ratio_parse_miss_sample.html"
MaxParseIssueExamples == 5

TickerCodes == {"1", "2", "3"}
MaxTickers == 2
MaxWorkers == 2

NoHolder == 0

Max2(a, b) == IF a >= b THEN a ELSE b
Min2(a, b) == IF a <= b THEN a ELSE b

\* worker_count = max(1, min(self.max_workers, total))
worker_count == Max2(1, Min2(max_workers, Len(tickers)))

Futures == 1..Len(tickers)
InWorker(i) == task[i].pc \in {"fetch", "lock", "save", "unlock"}

\* rows[ticker] = ratio on a dict that keeps insertion order
DictHas(d, k) == \E n \in 1..Len(d) : d[n].ticker = k
DictGet(d, k) == d[CHOOSE n \in 1..Len(d) : d[n].ticker = k].reserve_ratio
\* A successful ratio is never put in the dict.
DictSetSkipped(d, k, v) == d

\* rows[ticker] = ratio
DictSet(d, k, v) ==
    IF DictHas(d, k)
    THEN [n \in 1..Len(d) |-> IF d[n].ticker = k THEN [ticker |-> k, reserve_ratio |-> v] ELSE d[n]]
    ELSE Append(d, [ticker |-> k, reserve_ratio |-> v])

RECURSIVE OrderedRowsOf(_, _)
OrderedRowsOf(tks, d) ==
    IF tks = <<>> THEN <<>>
    ELSE (IF DictHas(d, Head(tks))
          THEN <<[ticker |-> Head(tks), reserve_ratio |-> DictGet(d, Head(tks))]>>
          ELSE <<>>) \o OrderedRowsOf(Tail(tks), d)

\* A frame built from the dict's own (completion) order.
CompletionOrderFrame(tks, d) == d

\* ordered_rows = [... for ticker in tickers if ticker in rows] (empty frame when not rows)
ResultFrame(tks, d) == IF d = <<>> THEN <<>> ELSE OrderedRowsOf(tks, d)

\* The lock is handed out whatever its state.
LockIgnored == TRUE

\* with html_sample_lock: the lock can be taken only when nobody holds it
LockFree == html_sample_lock = NoHolder

InitScraper ==
    /\ tickers \in SeqsUpTo(TickerCodes, MaxTickers)
    /\ max_workers \in 1..MaxWorkers
    /\ save_parse_miss_html \in BOOLEAN
    /\ task = [i \in 1..Len(tickers) |-> [pc |-> "queued", ratio |-> None, status |-> "pending"]]
    /\ html_sample_saved = FALSE
    /\ html_sample_lock = NoHolder
    /\ sample_writes = <<>>
    /\ rows = <<>>
    /\ counters = [failed_fetch |-> 0, no_data |-> 0, parse_error |-> 0, done |-> 0,
                   parse_issue_examples |-> 0]
    /\ scr_pc = "collecting"
    /\ frame = <<>>

\* No crawl is running (the specifications of the other components).
InitScraperIdle ==
    /\ tickers = <<>>
    /\ max_workers = 1
    /\ save_parse_miss_html = TRUE
    /\ task = <<>>
    /\ html_sample_saved = FALSE
    /\ html_sample_lock = NoHolder
    /\ sample_writes = <<>>
    /\ rows = <<>>
    /\ counters = [failed_fetch |-> 0, no_data |-> 0, parse_error |-> 0, done |-> 0,
                   parse_issue_examples |-> 0]
    /\ scr_pc = "returned"
    /\ frame = <<>>

\* A pool worker takes the next queued future (the work queue is FIFO).
StartWorker(i) ==
    /\ scr_pc \in {"collecting", "raising"}
    /\ task[i].pc = "queued"
    /\ \A j \in Futures : j < i => task[j].pc # "queued"
    /\ Cardinality({j \in Futures : InWorker(j)}) < worker_count
    /\ task' = [task EXCEPT ![i].pc = "fetch"]
    /\ UNCHANGED <<tickers, max_workers, save_parse_miss_html, html_sample_saved,
                   html_sample_lock, sample_writes, rows, counters, scr_pc, frame>>

\* A sample dump for every page that gave no ratio.
DumpsOnAnyMiss(status, save) == save

\* if status in {"parse_error", "marker_missing"} and self.save_parse_miss_html
DumpsHtmlSample(status, save) == status \in {"parse_error", "marker_missing"} /\ save

\* _collect_one up to the lock: fetch, extract, classify.
CollectOne(i) ==
    /\ task[i].pc = "fetch"
    /\ \E html \in FetchResults :
         IF html = None
         THEN task' = [task EXCEPT ![i] = [pc |-> "finished", ratio |-> None, status |-> "fetch_fail"]]
         ELSE LET r == _extract_latest_reserve_ratio_with_status(html[1])
              IN IF r.ratio = None
                 THEN IF DumpsHtmlSample(r.status, save_parse_miss_html)
                      THEN task' = [task EXCEPT ![i] = [pc |-> "lock", ratio |-> None, status |-> r.status]]
                      ELSE task' = [task EXCEPT ![i] = [pc |-> "finished", ratio |-> None, status |-> r.status]]
                 ELSE task' = [task EXCEPT ![i] = [pc |-> "finished", ratio |-> r.ratio, status |-> "success"]]
    /\ UNCHANGED <<tickers, max_workers, save_parse_miss_html, html_sample_saved,
                   html_sample_lock, sample_writes, rows, counters, scr_pc, frame>>

\* _fetch_html raises inside _collect_one: the future holds the exception
CollectOneRaises(i) ==
    /\ task[i].pc = "fetch"
    /\ \E exc \in FetchRaises :
         task' = [task EXCEPT ![i] = [pc |-> "finished", ratio |-> None, status |-> exc]]
    /\ UNCHANGED <<tickers, max_workers, save_parse_miss_html, html_sample_saved,
                   html_sample_lock, sample_writes, rows, counters, scr_pc, frame>>

\* with html_sample_lock: if not html_sample_saved
AcquireSampleLock(i) ==
    /\ task[i].pc = "lock"
    /\ LockFree
    /\ html_sample_lock' = i
    /\ task' = [task EXCEPT ![i].pc = IF html_sample_saved THEN "unlock" ELSE "save"]
    /\ UNCHANGED <<tickers, max_workers, save_parse_miss_html, html_sample_saved,
                   sample_writes, rows, counters, scr_pc, frame>>

\* self._save_html_sample(ticker, html); html_sample_saved = True
SaveHtmlSample(i) ==
    /\ task[i].pc = "save"
    /\ sample_writes' = Append(sample_writes, [path |-> parse_miss_html_path, ticker |-> tickers[i],
                                           status |-> task[i].status])
    /\ html_sample_saved' = TRUE
    /\ task' = [task EXCEPT ![i].pc = "unlock"]
    /\ UNCHANGED <<tickers, max_workers, save_parse_miss_html, html_sample_lock,
                   rows, counters, scr_pc, frame>>

\* leaving the with block; return ticker, None, status, preview
ReleaseSampleLock(i) ==
    /\ task[i].pc = "unlock"
    /\ html_sample_lock' = NoHolder
    /\ task' = [task EXCEPT ![i].pc = "finished"]
    /\ UNCHANGED <<tickers, max_workers, save_parse_miss_html, html_sample_saved,
                   sample_writes, rows, counters, scr_pc, frame>>

\* One iteration of "for future in as_completed(futures)".
ConsumeFuture(i) ==
    /\ scr_pc = "collecting"
    /\ task[i].pc = "finished"
    /\ task[i].status \notin FetchRaises
    /\ LET status == task[i].status
           ratio == task[i].ratio
           counted == [counters EXCEPT !.done = @ + 1]
       IN /\ counters' =
               IF status = "fetch_fail" THEN [counted EXCEPT !.failed_fetch = @ + 1]
               ELSE IF status = "no_data" THEN [counted EXCEPT !.no_data = @ + 1]
               ELSE IF status \in {"parse_error", "marker_missing"}
                    THEN [counted EXCEPT !.parse_error = @ + 1,
                                         !.parse_issue_examples =
                                             IF @ < MaxParseIssueExamples THEN @ + 1 ELSE @]
               ELSE counted
          /\ rows' =
               IF status \notin {"fetch_fail", "no_data", "parse_error", "marker_missing"}
                  /\ ratio # None
               THEN DictSet(rows, tickers[i], ratio[1])
               ELSE rows
    /\ task' = [task EXCEPT ![i].pc = "consumed"]
    /\ UNCHANGED <<tickers, max_workers, save_parse_miss_html, html_sample_saved,
                   html_sample_lock, sample_writes, scr_pc, frame>>

\* future.result() re-raises the exception of _collect_one: the loop is left
FutureResultRaises(i) ==
    /\ scr_pc = "collecting"
    /\ task[i].pc = "finished"
    /\ task[i].status \in FetchRaises
    /\ scr_pc' = "raising"
    /\ task' = [task EXCEPT ![i].pc = "consumed"]
    /\ UNCHANGED <<tickers, max_workers, save_parse_miss_html, html_sample_saved,
                   html_sample_lock, sample_writes, rows, counters, frame>>

\* The executor's __exit__ waits for the submitted futures (shutdown(wait=True)),
\* then the exception leaves latest_reserve_ratio: no frame is returned
CrawlAborts ==
    /\ scr_pc = "raising"
    /\ \A i \in Futures : task[i].pc \in {"finished", "consumed"}
    /\ scr_pc' = "aborted"
    /\ UNCHANGED <<tickers, max_workers, save_parse_miss_html, task, html_sample_saved,
                   html_sample_lock, sample_writes, rows, counters, frame>>

\* After the executor block: build and return the frame.
ReturnFrame ==
    /\ scr_pc = "collecting"
    /\ \A i \in Futures : task[i].pc = "consumed"
    /\ frame' = ResultFrame(tickers, rows)
    /\ scr_pc' = "returned"
    /\ UNCHANGED <<tickers, max_workers, save_parse_miss_html, task, html_sample_saved,
                   html_sample_lock, sample_writes, rows, counters>>


(***************************************************************************)
(* The SQLite cache: rows, frames, sessions (storage/db.py, repository.py) *)
(***************************************************************************)
\* Dates are day ordinals: the ISO strings of the source compare in date order.
Dates == {1, 2}
StoreTickers == {"005930", "000660"}

MaxBatch == 2
MaxClock == 2

CALC_VERSION == "v1.1"

TickerRecord(t, name, market, active) ==
    [ticker |-> t, name |-> name, market |-> market, active_flag |-> active]
PriceRecord(d, t, px, vol, value) ==
    [date |-> d, ticker |-> t, open |-> px, high |-> px + 1, low |-> px - 1, close |-> px,
     volume |-> vol, value |-> value]
CapRecord(d, t, mcap, value) ==
    [date |-> d, ticker |-> t, mcap |-> mcap, shares |-> 10, volume |-> 100, value |-> value]
FundamentalRecord(d, t, eps, bps) ==
    [date |-> d, ticker |-> t, per |-> 8, pbr |-> 1, eps |-> eps, bps |-> bps, div |-> 2, dps |-> 3]
\* LEFT JOIN fundamental_daily without a match: every column is NULL
NoFundamental ==
    [per |-> None, pbr |-> None, eps |-> None, bps |-> None, div |-> None, dps |-> None]

\* A row of build_snapshot's frame. With the histories of this model (fewer
\* than 5 trading days, less than a year of fundamentals) every rolling,
\* return and EPS-growth column of the row is null and is left out.
SnapshotRow(a, t, name, market, close, mcap, f) ==
    [asof_date |-> a, ticker |-> t, name |-> name, market |-> market, close |-> close,
     mcap |-> mcap, per |-> f.per, pbr |-> f.pbr, div |-> f.div, dps |-> f.dps,
     eps |-> f.eps, bps |-> f.bps,
     roe_proxy |-> IF f.bps # None /\ f.bps[1] > 0 /\ f.eps # None
                   THEN Some((f.eps[1] * 100) \div f.bps[1]) ELSE None,
     eps_positive |-> IF f.eps # None /\ f.eps[1] > 0 THEN 1 ELSE 0,
     calc_version |-> CALC_VERSION]
SnapshotRecord(a, t, name, close, mcap) ==
    SnapshotRow(a, t, Some(name), Some("KOSPI"), close, mcap, NoFundamental)

\* The rows the collectors and the metrics engine hand to the repository here.
TickerRecords == {TickerRecord("005930", "Samsung", "KOSPI", 1),
                  TickerRecord("005930", "SamsungElec", "KOSPI", 0)}
PriceRecords == {PriceRecord(1, "005930", 10, 100, None),
                 PriceRecord(1, "005930", 11, 120, Some(5)),
                 PriceRecord(2, "000660", 20, 100, None)}
CapRecords == {CapRecord(1, "005930", Some(1000), Some(7)),
               CapRecord(1, "005930", Some(1100), None)}
FundamentalRecords == {FundamentalRecord(1, "005930", Some(4), Some(40)),
                       FundamentalRecord(2, "000660", None, None)}

UpsertTables == {"ticker_master", "prices_daily", "cap_daily", "fundamental_daily"}

RecordsOf(table) ==
    CASE table = "ticker_master" -> TickerRecords
      [] table = "prices_daily" -> PriceRecords
      [] table = "cap_daily" -> CapRecords
      [] table = "fundamental_daily" -> FundamentalRecords

\* PRIMARY KEY of each table (SCHEMA)
PrimaryKey(table, r) ==
    CASE table = "ticker_master" -> <<r.ticker>>
      [] table = "snapshot_metrics" -> <<r.asof_date, r.ticker>>
      [] OTHER -> <<r.date, r.ticker>>

\* The column CURRENT_TIMESTAMP goes to
TimestampColumn(table) ==
    CASE table = "ticker_master" -> "updated_at"
      [] table = "snapshot_metrics" -> "created_at"
      [] OTHER -> "source_ts"

Stamped(table, r, ts) ==
    [c \in DOMAIN r \cup {TimestampColumn(table)} |->
        IF c = TimestampColumn(table) THEN ts ELSE r[c]]

\* A stored row without its timestamp column
NonTimestamp(table, r) == [c \in DOMAIN r \ {TimestampColumn(table)} |-> r[c]]
StripTimestamps(table, tbl) == {NonTimestamp(table, r) : r \in tbl}

HasKey(table, tbl, r) == \E s \in tbl : PrimaryKey(table, s) = PrimaryKey(table, r)

\* An INSERT that neither checks nor replaces the row holding the key.
InsertBlind(table, tbl, r, ts) == tbl \cup {Stamped(table, r, ts)}

\* INSERT ... ON CONFLICT(key) DO UPDATE SET every non-key column = excluded.*,
\* timestamp = CURRENT_TIMESTAMP
InsertOnConflictUpdate(table, tbl, r, ts) ==
    {s \in tbl : PrimaryKey(table, s) # PrimaryKey(table, r)} \cup {Stamped(table, r, ts)}

\* The count of rows that were not yet stored.
CountNewKeys(table, tbl, records) ==
    Cardinality({PrimaryKey(table, records[n]) : n \in 1..Len(records)}
                \ {PrimaryKey(table, s) : s \in tbl})

\* return len(rows)
UpsertReturn(table, tbl, records) == Len(records)

TableRows(table) ==
    CASE table = "ticker_master" -> ticker_master
      [] table = "prices_daily" -> prices_daily
      [] table = "cap_daily" -> cap_daily
      [] table = "fundamental_daily" -> fundamental_daily
      [] table = "snapshot_metrics" -> snapshot_metrics

IdleTxn == [op |-> "idle", caller |-> "none", table |-> "none", asof |-> 0, rest |-> <<>>,
            records |-> <<>>, work |-> {}, before |-> {}]
NoCall == [op |-> "none", caller |-> "none", arg |-> <<>>, table |-> "none", asof |-> 0, records |-> <<>>, status |-> "none",
           ret |-> 0, error |-> <<>>, before |-> {}, executed |-> 0,
           repeat |-> FALSE, prev_ret |-> 0, db_empty |-> FALSE]
NoObservation == [asof |-> 0, rows |-> {}, old |-> {}, new |-> {}, during |-> FALSE]

\* The last value each key was written with, over the applied records in order
RECURSIVE LastWrites(_, _, _)
LastWrites(table, lw, records) ==
    IF records = <<>> THEN lw
    ELSE LastWrites(table,
                    [k \in DOMAIN lw \cup {<<table, PrimaryKey(table, Head(records))>>} |->
                        IF k = <<table, PrimaryKey(table, Head(records))>>
                        THEN Head(records) ELSE lw[k]],
                    Tail(records))

InitStoreIdle ==
    /\ ticker_master = {}
    /\ prices_daily = {}
    /\ cap_daily = {}
    /\ fundamental_daily = {}
    /\ snapshot_metrics = {}
    /\ table_info = {}
    /\ now = 0
    /\ txn = IdleTxn
    /\ call = NoCall
    /\ lastWrite = <<>>
    /\ observed = NoObservation
    /\ init_pc = "done"

(***************************************************************************)
(* Sessions: db_session, the upserts, replace_snapshot, load_snapshot      *)
(***************************************************************************)
\* A session that raised leaves what its statements had written so far.
KeepPartialWork(committed, work) == work

\* db_session: an exception skips conn.commit(); conn.close() drops the
\* uncommitted statements
AfterFailedSession(committed, work) == committed

\* A commit that makes nothing durable.
DropCommit(committed, work) == committed

\* conn.commit()
AfterCommit(committed, work) == work

\* DELETE FROM snapshot_metrics with no WHERE clause.
DeleteEverySnapshot(tbl, asof_date) == {}

\* DELETE FROM snapshot_metrics WHERE asof_date = ?
DeleteSnapshot(tbl, asof_date) == {r \in tbl : r.asof_date # asof_date}

\* A reader that sees the writer's uncommitted statements.
DirtyView == IF txn.op = "replace_snapshot" THEN txn.work ELSE snapshot_metrics

\* Another connection reads the committed database
ReaderView == snapshot_metrics

SqliteError == <<"sqlite3", "Error">>

\* Whether this call repeats the last finished call (same operation, same records)
Repeats(op, table, records) ==
    /\ call.status = "ok"
    /\ call.op = op
    /\ call.table = table
    /\ call.records = records

\* upsert_* on an empty frame: return 0 before any session is opened
UpsertEmptyFrame(table) ==
    /\ txn.op = "idle"
    /\ call' = [NoCall EXCEPT !.op = "upsert", !.table = table, !.status = "ok", !.ret = 0,
                              !.before = TableRows(table),
                              !.repeat = Repeats("upsert", table, <<>>),
                              !.prev_ret = call.ret]
    /\ UNCHANGED <<dbVars, table_info, now, txn, lastWrite, observed, init_pc>>

\* upsert_*: _to_sql_records, then the session is opened
BeginUpsert(table, records) ==
    /\ txn.op = "idle"
    /\ now < MaxClock
    /\ records # <<>>
    /\ now' = now + 1
    /\ txn' = [op |-> "upsert", caller |-> "none", table |-> table, asof |-> 0, rest |-> records,
               records |-> records, work |-> TableRows(table), before |-> TableRows(table)]
    /\ UNCHANGED <<dbVars, table_info, call, lastWrite, observed, init_pc>>

\* replace_snapshot: the session is opened and the DELETE executed; an empty
\* frame returns 0 from inside the session
BeginReplaceSnapshot(caller, asof_date, records) ==
    /\ txn.op = "idle"
    /\ now < MaxClock
    /\ now' = now + 1
    /\ txn' = [op |-> "replace_snapshot", caller |-> caller, table |-> "snapshot_metrics",
               asof |-> asof_date,
               rest |-> records, records |-> records,
               work |-> DeleteSnapshot(snapshot_metrics, asof_date),
               before |-> snapshot_metrics]
    /\ UNCHANGED <<dbVars, table_info, call, lastWrite, observed, init_pc>>

\* executemany: the statement runs for the next record
ExecuteRow ==
    /\ txn.op # "idle"
    /\ txn.rest # <<>>
    /\ IF txn.op = "upsert"
       THEN txn' = [txn EXCEPT !.rest = Tail(@),
                               !.work = InsertOnConflictUpdate(txn.table, @, Head(txn.rest), now)]
       ELSE /\ ~HasKey(txn.table, txn.work, Head(txn.rest))
            /\ txn' = [txn EXCEPT !.rest = Tail(@),
                                  !.work = @ \cup {Stamped(txn.table, Head(txn.rest), now)}]
    /\ UNCHANGED <<dbVars, table_info, now, call, lastWrite, observed, init_pc>>

StoreTable(table, committed, new) == IF txn.table = table THEN new ELSE committed

\* A statement or the commit raises: the with block is left without commit
SessionFails ==
    /\ txn.op # "idle"
    /\ LET after == AfterFailedSession(txn.before, txn.work)
       IN /\ ticker_master' = StoreTable("ticker_master", ticker_master, after)
          /\ prices_daily' = StoreTable("prices_daily", prices_daily, after)
          /\ cap_daily' = StoreTable("cap_daily", cap_daily, after)
          /\ fundamental_daily' = StoreTable("fundamental_daily", fundamental_daily, after)
          /\ snapshot_metrics' = StoreTable("snapshot_metrics", snapshot_metrics, after)
    /\ call' = [NoCall EXCEPT !.op = txn.op, !.caller = txn.caller, !.table = txn.table,
                              !.asof = txn.asof,
                              !.records = txn.records, !.status = "error",
                              !.error = SqliteError, !.before = txn.before,
                              !.executed = Len(txn.records) - Len(txn.rest)]
    /\ txn' = IdleTxn
    /\ UNCHANGED <<table_info, now, lastWrite, observed, init_pc>>

\* The with block ends: conn.commit(), conn.close(), return the row count
CommitSession ==
    /\ txn.op # "idle"
    /\ txn.rest = <<>>
    /\ LET after == AfterCommit(txn.before, txn.work)
       IN /\ ticker_master' = StoreTable("ticker_master", ticker_master, after)
          /\ prices_daily' = StoreTable("prices_daily", prices_daily, after)
          /\ cap_daily' = StoreTable("cap_daily", cap_daily, after)
          /\ fundamental_daily' = StoreTable("fundamental_daily", fundamental_daily, after)
          /\ snapshot_metrics' = StoreTable("snapshot_metrics", snapshot_metrics, after)
    /\ call' = [NoCall EXCEPT !.op = txn.op, !.caller = txn.caller, !.table = txn.table,
                              !.asof = txn.asof,
                              !.records = txn.records, !.status = "ok",
                              !.ret = IF txn.op = "upsert"
                                      THEN UpsertReturn(txn.table, txn.before, txn.records)
                                      ELSE Len(txn.records),
                              !.before = txn.before,
                              !.executed = Len(txn.records),
                              !.repeat = Repeats(txn.op, txn.table, txn.records),
                              !.prev_ret = call.ret]
    /\ lastWrite' = IF txn.op = "upsert"
                    THEN LastWrites(txn.table, lastWrite, txn.records)
                    ELSE lastWrite
    /\ txn' = IdleTxn
    /\ UNCHANGED <<table_info, now, observed, init_pc>>

\* load_snapshot(asof_date) on a reader's own connection
LoadSnapshot(asof_date) ==
    /\ observed' = [asof |-> asof_date,
                    rows |-> {r \in ReaderView : r.asof_date = asof_date},
                    during |-> txn.op = "replace_snapshot" /\ txn.asof = asof_date,
                    old |-> {r \in txn.before : r.asof_date = asof_date},
                    new |-> {Stamped("snapshot_metrics", txn.records[n], now) :
                                n \in 1..Len(txn.records)}]
    /\ UNCHANGED <<dbVars, table_info, now, txn, call, lastWrite, init_pc>>

(***************************************************************************)
(* Specification of the upserts                                            *)
(***************************************************************************)
Init ==
    /\ InitScraperIdle
    /\ InitAuxIdle
    /\ InitStoreIdle

Next ==
    \/ \E table \in UpsertTables : UpsertEmptyFrame(table) /\ UNCHANGED <<scraperVars, auxVars>>
    \/ \E table \in UpsertTables :
         \E records \in SeqsUpTo(RecordsOf(table), MaxBatch) :
            BeginUpsert(table, records) /\ UNCHANGED <<scraperVars, auxVars>>
    \/ ExecuteRow /\ UNCHANGED <<scraperVars, auxVars>>
    \/ SessionFails /\ UNCHANGED <<scraperVars, auxVars>>
    \/ CommitSession /\ UNCHANGED <<scraperVars, auxVars>>

Spec == Init /\ [][Next]_vars

(***************************************************************************)
(* Properties of the upserts (checked under Spec)                          *)
(***************************************************************************)
KeyedTables == {"prices_daily", "cap_daily", "fundamental_daily"}

\* C5: an upsert_* call that repeats the call before it (same table, same
\* batch) leaves the table with the same keys and the same non-timestamp
\* column values as the first application did, and returns the same count.
C5_UpsertIdempotent ==
    (call.op = "upsert" /\ call.status = "ok" /\ call.repeat) =>
        /\ StripTimestamps(call.table, TableRows(call.table))
             = StripTimestamps(call.table, call.before)
        /\ {PrimaryKey(call.table, r) : r \in TableRows(call.table)}
             = {PrimaryKey(call.table, r) : r \in call.before}
        /\ call.ret = call.prev_ret

C5_Witness ==
    /\ call.op = "upsert"
    /\ call.status = "ok"
    /\ call.repeat
    /\ Len(call.records) = 2
    /\ call.records[1] # call.records[2]
    /\ call.ret = 2

\* C6: each of prices_daily, cap_daily and fundamental_daily holds at most
\* one row per (date, ticker), and that row carries the values of the write
\* applied last for its key.
C6_OneRowPerKeyLatestWrite ==
    \A table \in KeyedTables :
        /\ \A r, s \in TableRows(table) :
              PrimaryKey(table, r) = PrimaryKey(table, s) => r = s
        /\ \A r \in TableRows(table) :
              /\ <<table, PrimaryKey(table, r)>> \in DOMAIN lastWrite
              /\ NonTimestamp(table, r) = lastWrite[<<table, PrimaryKey(table, r)>>]

C6_Witness ==
    /\ call.op = "upsert"
    /\ call.status = "ok"
    /\ call.table = "prices_daily"
    /\ Len(call.records) = 2
    /\ PrimaryKey("prices_daily", call.records[1]) = PrimaryKey("prices_daily", call.records[2])
    /\ call.records[1] # call.records[2]
    /\ \E r \in call.before : PrimaryKey("prices_daily", r) = PrimaryKey("prices_daily", call.records[1])
    /\ \E r \in prices_daily : NonTimestamp("prices_daily", r) = call.records[2]

(***************************************************************************)
(* Specification of snapshot replacement with a concurrent reader          *)
(***************************************************************************)
\* The rows build_snapshot can hand over for an as-of date: every row is
\* stamped with that date (merged["asof_date"] = asof_date), one per ticker.
SnapshotRecordsAt(a) == {SnapshotRecord(a, "005930", "Samsung", 10, Some(1000)),
                         SnapshotRecord(a, "005930", "Samsung", 11, Some(1000)),
                         SnapshotRecord(a, "000660", "Hynix", 20, None)}
SnapshotFrames(a) ==
    {f \in SeqsUpTo(SnapshotRecordsAt(a), MaxBatch) :
        \A i, j \in 1..Len(f) : i # j => f[i].ticker # f[j].ticker}

StoredSnapshot(records) == {Stamped("snapshot_metrics", r, 0) : r \in records}
InitialSnapshots ==
    {{},
     StoredSnapshot({SnapshotRecord(1, "005930", "Samsung", 10, Some(1000)),
                     SnapshotRecord(1, "000660", "Hynix", 20, None)}),
     StoredSnapshot({SnapshotRecord(1, "005930", "Samsung", 10, Some(1000)),
                     SnapshotRecord(1, "000660", "Hynix", 20, None),
                     SnapshotRecord(2, "005930", "Samsung", 11, Some(1000))})}

InitSnapshot ==
    /\ InitScraperIdle
    /\ InitAuxIdle
    /\ ticker_master = {}
    /\ prices_daily = {}
    /\ cap_daily = {}
    /\ fundamental_daily = {}
    /\ snapshot_metrics \in InitialSnapshots
    /\ table_info = {}
    /\ now = 0
    /\ txn = IdleTxn
    /\ call = NoCall
    /\ lastWrite = <<>>
    /\ observed = NoObservation
    /\ init_pc = "done"

NextSnapshot ==
    \/ \E a \in Dates : \E f \in SnapshotFrames(a) :
          BeginReplaceSnapshot("none", a, f) /\ UNCHANGED <<scraperVars, auxVars>>
    \/ ExecuteRow /\ UNCHANGED <<scraperVars, auxVars>>
    \/ SessionFails /\ UNCHANGED <<scraperVars, auxVars>>
    \/ CommitSession /\ UNCHANGED <<scraperVars, auxVars>>
    \/ \E a \in Dates : LoadSnapshot(a) /\ UNCHANGED <<scraperVars, auxVars>>

SpecSnapshot == InitSnapshot /\ [][NextSnapshot]_vars

RowsAt(tbl, a) == {r \in tbl : r.asof_date = a}
RowsNotAt(tbl, a) == {r \in tbl : r.asof_date # a}

\* C2: when replace_snapshot(A, rows) fails after its DELETE has executed,
\* the snapshot rows of A that existed before the call are all still
\* present, with identical count and content.
C2_FailedReplaceKeepsSnapshot ==
    (call.op = "replace_snapshot" /\ call.status = "error") =>
        /\ RowsAt(snapshot_metrics, call.asof) = RowsAt(call.before, call.asof)
        /\ Cardinality(RowsAt(snapshot_metrics, call.asof))
             = Cardinality(RowsAt(call.before, call.asof))

\* The insert failed midway: one row of two was inserted, and rows of A existed.
C2_Witness ==
    /\ call.op = "replace_snapshot"
    /\ call.status = "error"
    /\ Len(call.records) = 2
    /\ call.executed = 1
    /\ RowsAt(call.before, call.asof) # {}
    /\ \A r \in RowsAt(call.before, call.asof) :
          NonTimestamp("snapshot_metrics", r) # call.records[1]

C4_ReaderSeesOldOrNew ==
    observed.during => observed.rows \in {observed.old, observed.new}

\* The read happened after the DELETE and one of two INSERTs had executed.
C4_Witness ==
    /\ observed.during
    /\ observed.old # {}
    /\ Cardinality(observed.new) = 2
    /\ observed.rows = observed.old
    /\ txn.op = "replace_snapshot"
    /\ txn.asof = observed.asof
    /\ Len(txn.rest) = 1
    /\ RowsAt(txn.work, txn.asof) # observed.old

(***************************************************************************)
(* Specification of the scraper                                            *)
(***************************************************************************)
NextScraper ==
    \/ \E i \in Futures : StartWorker(i) /\ UNCHANGED <<storeVars, auxVars>>
    \/ \E i \in Futures : CollectOne(i) /\ UNCHANGED <<storeVars, auxVars>>
    \/ \E i \in Futures : CollectOneRaises(i) /\ UNCHANGED <<storeVars, auxVars>>
    \/ \E i \in Futures : AcquireSampleLock(i) /\ UNCHANGED <<storeVars, auxVars>>
    \/ \E i \in Futures : SaveHtmlSample(i) /\ UNCHANGED <<storeVars, auxVars>>
    \/ \E i \in Futures : ReleaseSampleLock(i) /\ UNCHANGED <<storeVars, auxVars>>
    \/ \E i \in Futures : ConsumeFuture(i) /\ UNCHANGED <<storeVars, auxVars>>
    \/ \E i \in Futures : FutureResultRaises(i) /\ UNCHANGED <<storeVars, auxVars>>
    \/ CrawlAborts /\ UNCHANGED <<storeVars, auxVars>>
    \/ ReturnFrame /\ UNCHANGED <<storeVars, auxVars>>

InitScraperSpec == InitScraper /\ InitStoreIdle /\ InitAuxIdle

SpecScraper == InitScraperSpec /\ [][NextScraper]_vars


(***************************************************************************)
(* Properties of the scraper (checked under SpecScraper)                   *)
(***************************************************************************)
Succeeded == {tickers[i] : i \in {j \in Futures : task[j].status = "success"}}
ParseMiss(i) == task[i].status \in {"parse_error", "marker_missing"}

\* C1: whatever the order in which the futures complete, the tickers of the
\* returned frame are the input tickers in input order, restricted to the
\* tickers whose extraction succeeded.
C1_InputOrderKept ==
    scr_pc = "returned" =>
        [n \in 1..Len(frame) |-> frame[n].ticker]
            = SelectSeq(tickers, LAMBDA t : t \in Succeeded)

\* The second input ticker was consumed first, with two workers.
C1_Witness ==
    /\ scr_pc = "returned"
    /\ max_workers = 2
    /\ Len(frame) = 2
    /\ Len(rows) = 2
    /\ rows[1].ticker = tickers[2]
    /\ rows[2].ticker = tickers[1]

\* C7: within one latest_reserve_ratio invocation the parse-miss HTML
\* sample is written at most once, and to parse_miss_html_path.
C7_SampleSavedAtMostOnce ==
    /\ Len(sample_writes) <= 1
    /\ \A n \in 1..Len(sample_writes) : sample_writes[n].path = parse_miss_html_path

\* Two tickers ended in parse_error or marker_missing and went through the
\* guarded block; one sample was written.
C7_Witness ==
    /\ save_parse_miss_html
    /\ max_workers = 2
    /\ \E i, j \in Futures :
          /\ i # j
          /\ ParseMiss(i) /\ task[i].pc = "finished"
          /\ ParseMiss(j) /\ task[j].pc = "unlock"
    /\ Len(sample_writes) = 1

(***************************************************************************)
(* The sub-pipelines of DailyBatchPipeline (pipelines/daily_batch.py)      *)
(***************************************************************************)
lookback_days == 400
MaxOf(S) == CHOOSE x \in S : \A y \in S : y <= x
\* Python's `a or b` on two optional dates
OrElse(a, b) == IF a # None THEN a ELSE b
DbEmpty ==
    /\ ticker_master = {}
    /\ prices_daily = {}
    /\ cap_daily = {}
    /\ fundamental_daily = {}
    /\ snapshot_metrics = {}

\* SELECT MAX(date) FROM prices_daily
get_latest_price_date ==
    IF prices_daily = {} THEN None ELSE Some(MaxOf({r.date : r \in prices_daily}))
\* SELECT MAX(asof_date) FROM snapshot_metrics
get_latest_snapshot_date ==
    IF snapshot_metrics = {} THEN None ELSE Some(MaxOf({r.asof_date : r \in snapshot_metrics}))
\* SELECT COUNT(*) FROM ticker_master WHERE active_flag = 1
count_active_tickers == Cardinality({r \in ticker_master : r.active_flag = 1})

\* Every price row up to end_date, however many the ticker has.
WholeHistory(end_date, window) ==
    {[date |-> p.date, ticker |-> p.ticker, close |-> p.close,
      value |-> LET c == {x \in cap_daily : x.date = p.date /\ x.ticker = p.ticker}
                IN IF c # {} /\ (CHOOSE x \in c : TRUE).value # None
                   THEN (CHOOSE x \in c : TRUE).value ELSE p.value] :
        p \in {q \in prices_daily : q.date <= end_date}}

\* prices up to end_date, the `window` latest per ticker, value taken from
\* cap_daily when it has one (COALESCE(c.value, p.value))
get_price_window(end_date, window) ==
    {[date |-> p.date, ticker |-> p.ticker, close |-> p.close,
      value |-> LET c == {x \in cap_daily : x.date = p.date /\ x.ticker = p.ticker}
                IN IF c # {} /\ (CHOOSE x \in c : TRUE).value # None
                   THEN (CHOOSE x \in c : TRUE).value ELSE p.value] :
        p \in {q \in prices_daily :
                 /\ q.date <= end_date
                 /\ Cardinality({l \in prices_daily : l.ticker = q.ticker /\ l.date <= end_date
                                                       /\ l.date > q.date}) < window}}

\* active tickers LEFT JOIN cap_daily and fundamental_daily at dt
get_daily_join(dt) ==
    {[ticker |-> t.ticker, name |-> Some(t.name), market |-> Some(t.market),
      mcap |-> LET c == {x \in cap_daily : x.date = dt /\ x.ticker = t.ticker}
               IN IF c = {} THEN None ELSE (CHOOSE x \in c : TRUE).mcap,
      fund |-> LET f == {x \in fundamental_daily : x.date = dt /\ x.ticker = t.ticker}
               IN IF f = {} THEN NoFundamental
                  ELSE LET x == CHOOSE y \in f : TRUE
                       IN [per |-> Some(x.per), pbr |-> Some(x.pbr), eps |-> x.eps,
                           bps |-> x.bps, div |-> Some(x.div), dps |-> Some(x.dps)]] :
        t \in {r \in ticker_master : r.active_flag = 1}}

\* fundamentals up to end_date (the six-year lower limit lies before every
\* date of this model)
get_fundamental_window(end_date) == {f \in fundamental_daily : f.date <= end_date}

\* build_snapshot sorts by ticker: the tickers in ascending order
TickerOrder == <<"000660", "005930">>

RECURSIVE OrderedByTicker(_, _)
OrderedByTicker(rowset, order) ==
    IF order = <<>> THEN <<>>
    ELSE LET here == {r \in rowset : r.ticker = Head(order)}
         IN (IF here = {} THEN <<>> ELSE <<CHOOSE r \in here : TRUE>>)
            \o OrderedByTicker(rowset, Tail(order))

\* The last row of every ticker, whatever its date.
LatestRowsAnyDate(price_window, asof_date) ==
    {p \in price_window : \A q \in price_window : q.ticker = p.ticker => q.date <= p.date}

\* groups.append(g.iloc[-1]); latest = latest[latest["asof_date"] == asof_date]
LatestRows(price_window, asof_date) ==
    {p \in price_window :
        /\ \A q \in price_window : q.ticker = p.ticker => q.date <= p.date
        /\ p.date = asof_date}

\* build_snapshot: the last row of each ticker's window, kept when it is of
\* asof_date, left-merged with the daily join on ticker
build_snapshot(price_window, daily, fund_hist, asof_date) ==
    IF price_window = {} THEN <<>>
    ELSE LET latest == LatestRows(price_window, asof_date)
             merged == {LET d == {x \in daily : x.ticker = p.ticker}
                        IN IF d = {}
                           THEN SnapshotRow(asof_date, p.ticker, None, None, p.close, None,
                                            NoFundamental)
                           ELSE LET x == CHOOSE y \in d : TRUE
                                IN SnapshotRow(asof_date, p.ticker, x.name, x.market, p.close,
                                               x.mcap, x.fund) : p \in latest}
         IN OrderedByTicker(merged, TickerOrder)

\* The messages of the errors, word by word
CacheEmptyMessage ==
    <<"DB", "cache", "is", "empty.", "Run", "full", "collection", "first.">>
TickerMasterEmptyMessage ==
    <<"ticker_master", "is", "empty.", "Run", "full", "collection", "first.">>
NoCachedRowsMessage ==
    <<"No", "cached", "rows", "for", "asof.", "Run", "full", "collection", "for", "this",
      "date", "or", "choose", "an", "existing", "asof", "date.">>
BusinessDayMessage == <<"Could", "not", "determine", "business", "day">>
AttributeErrorMessage(method) ==
    <<"'Repository'", "object", "has", "no", "attribute", method>>

\* The methods class Repository defines
RepositoryMethods ==
    {"_to_sql_records", "upsert_tickers", "upsert_prices", "upsert_cap", "upsert_fundamental",
     "replace_snapshot", "get_price_window", "get_daily_join", "get_fundamental_window",
     "get_latest_price_date", "count_active_tickers", "get_latest_snapshot_date",
     "load_snapshot"}

\* The argument asof_date: absent, or a date
AsofArgs == {None} \cup {Some(d) : d \in Dates}
\* PykrxCollector.recent_business_day: a trading day, or RuntimeError after
\* ten empty days
BusinessDays == {None} \cup {Some(d) : d \in Dates}

\* An as-of date that falls back to a business day instead of failing.
ResolveAsofOrToday(asof_arg) ==
    IF asof_arg # None THEN asof_arg
    ELSE OrElse(OrElse(get_latest_price_date, get_latest_snapshot_date), Some(MaxOf(Dates)))

\* rebuild_snapshot_only: asof_date, else the latest price date, else the
\* latest snapshot date, else nothing
ResolveRebuildAsof(asof_arg) ==
    IF asof_arg # None THEN asof_arg
    ELSE OrElse(get_latest_price_date, get_latest_snapshot_date)

\* The ValueError rebuild_snapshot_only raises before it writes, <<>> if none
RebuildFailure(asof) ==
    IF asof = None THEN CacheEmptyMessage
    ELSE IF count_active_tickers = 0 THEN TickerMasterEmptyMessage
    ELSE IF get_price_window(asof[1], lookback_days) = {} \/ get_daily_join(asof[1]) = {}
         THEN NoCachedRowsMessage
    ELSE <<>>

\* rebuild_snapshot_only(asof_date): raises, or builds the snapshot from the
\* cache and hands it to replace_snapshot
RebuildSnapshotOnly(asof_arg) ==
    /\ txn.op = "idle"
    /\ LET asof == ResolveRebuildAsof(asof_arg)
           failure == RebuildFailure(asof)
       IN IF failure # <<>>
          THEN /\ call' = [NoCall EXCEPT !.op = "rebuild_snapshot_only",
                                         !.caller = "rebuild_snapshot_only",
                                         !.arg = asof_arg,
                                         !.asof = IF asof = None THEN 0 ELSE asof[1],
                                         !.status = "error", !.error = failure,
                                         !.before = snapshot_metrics,
                                         !.db_empty = DbEmpty]
               /\ UNCHANGED <<dbVars, table_info, now, txn, lastWrite, observed, init_pc>>
          ELSE BeginReplaceSnapshot("rebuild_snapshot_only", asof[1],
                                    build_snapshot(get_price_window(asof[1], lookback_days),
                                                   get_daily_join(asof[1]),
                                                   get_fundamental_window(asof[1]),
                                                   asof[1]))

\* update_reserve_ratio_only: asof_date, else the latest price date, else the
\* latest snapshot date, else recent_business_day()
ResolveReserveAsof(asof_arg, business_day) ==
    IF asof_arg # None THEN asof_arg
    ELSE OrElse(OrElse(get_latest_price_date, get_latest_snapshot_date), business_day)

\* update_reserve_ratio_only(asof_date): the as-of date is resolved, then
\* self.repo.get_active_tickers is looked up. Repository defines no such
\* method, so the lookup raises AttributeError and nothing after it runs.
UpdateReserveRatioOnly(asof_arg, business_day) ==
    /\ txn.op = "idle"
    /\ LET asof == ResolveReserveAsof(asof_arg, business_day)
       IN IF asof = None
          THEN call' = [NoCall EXCEPT !.op = "update_reserve_ratio_only",
                                      !.caller = "update_reserve_ratio_only",
                                      !.arg = asof_arg,
                                      !.status = "error", !.error = BusinessDayMessage,
                                      !.before = snapshot_metrics, !.db_empty = DbEmpty]
          ELSE /\ "get_active_tickers" \notin RepositoryMethods
               /\ call' = [NoCall EXCEPT !.op = "update_reserve_ratio_only",
                                         !.caller = "update_reserve_ratio_only",
                                         !.arg = asof_arg, !.asof = asof[1],
                                         !.status = "error",
                                         !.error = AttributeErrorMessage("get_active_tickers"),
                                         !.before = snapshot_metrics, !.db_empty = DbEmpty]
    /\ UNCHANGED <<dbVars, table_info, now, txn, lastWrite, observed, init_pc>>

(***************************************************************************)
(* Specification of the sub-pipelines over a cache earlier runs filled     *)
(***************************************************************************)
StoredRows(table, records) == {Stamped(table, r, 0) : r \in records}
CachedTickers ==
    {{},
     {TickerRecord("005930", "Samsung", "KOSPI", 1)},
     {TickerRecord("005930", "Samsung", "KOSPI", 1), TickerRecord("000660", "Hynix", "KOSPI", 0)},
     {TickerRecord("005930", "Samsung", "KOSPI", 1), TickerRecord("000660", "Hynix", "KOSPI", 1)}}
CachedPrices ==
    SUBSET {PriceRecord(1, "005930", 10, 100, None), PriceRecord(2, "005930", 11, 120, Some(5)),
            PriceRecord(2, "000660", 20, 100, None)}
CachedCaps == {{}, {CapRecord(2, "005930", Some(1000), Some(7))}}
CachedFundamentals == {{}, {FundamentalRecord(2, "005930", Some(4), Some(40))}}
CachedSnapshots == {{}, {SnapshotRecord(1, "005930", "Samsung", 10, Some(1000))}}

InitPipeline ==
    /\ InitScraperIdle
    /\ InitAuxIdle
    /\ ticker_master \in {StoredRows("ticker_master", c) : c \in CachedTickers}
    /\ prices_daily \in {StoredRows("prices_daily", c) : c \in CachedPrices}
    /\ cap_daily \in {StoredRows("cap_daily", c) : c \in CachedCaps}
    /\ fundamental_daily \in {StoredRows("fundamental_daily", c) : c \in CachedFundamentals}
    /\ snapshot_metrics \in {StoredRows("snapshot_metrics", c) : c \in CachedSnapshots}
    /\ table_info = {}
    /\ now = 0
    /\ txn = IdleTxn
    /\ call = NoCall
    /\ lastWrite = <<>>
    /\ observed = NoObservation
    /\ init_pc = "done"

NextPipeline ==
    \/ \E a \in AsofArgs : RebuildSnapshotOnly(a) /\ UNCHANGED <<scraperVars, auxVars>>
    \/ \E a \in AsofArgs : \E b \in BusinessDays :
          UpdateReserveRatioOnly(a, b) /\ UNCHANGED <<scraperVars, auxVars>>
    \/ ExecuteRow /\ UNCHANGED <<scraperVars, auxVars>>
    \/ SessionFails /\ UNCHANGED <<scraperVars, auxVars>>
    \/ CommitSession /\ UNCHANGED <<scraperVars, auxVars>>

SpecPipeline == InitPipeline /\ [][NextPipeline]_vars

(***************************************************************************)
(* Properties of the sub-pipelines (checked under SpecPipeline)            *)
(***************************************************************************)
Mentions(msg, words) == \E i \in 1..Len(msg) : msg[i] \in words
MentionsCache(msg) == Mentions(msg, {"cache", "cached"})
HintsFullCollection(msg) ==
    \E i \in 1..Len(msg) : Len(msg) >= i + 2 /\ SubSeq(msg, i, i + 2) = <<"Run", "full", "collection">>
RebuildOnEmptyDb == call.op = "rebuild_snapshot_only" /\ call.db_empty

\* C8 as stated: rebuild_snapshot_only on an empty database, with or without
\* an explicit asof_date, raises an error whose message mentions "cache" and
\* leaves every table without a new row.
C8_EmptyDbRebuildMentionsCache ==
    RebuildOnEmptyDb =>
        /\ call.status = "error"
        /\ MentionsCache(call.error)
        /\ DbEmpty

\* C8 amended: rebuild_snapshot_only on an empty database raises an error
\* that hints at running the full collection and leaves every table without
\* a new row; its message mentions "cache" when no asof_date is given, and
\* names ticker_master when an asof_date is given.
C8_EmptyDbRebuildFails ==
    RebuildOnEmptyDb =>
        /\ call.status = "error"
        /\ HintsFullCollection(call.error)
        /\ DbEmpty
        /\ call.arg = None => MentionsCache(call.error)
        /\ call.arg # None => call.error = TickerMasterEmptyMessage

C8_Witness ==
    /\ RebuildOnEmptyDb
    /\ call.arg = None
    /\ call.status = "error"
    /\ call.error = CacheEmptyMessage
    /\ DbEmpty

\* C9: update_reserve_ratio_only, once the as-of date is resolved, reads the
\* active tickers, scrapes, stores the ratios on the snapshot of that date
\* and returns the as-of date with the number of rows written: the call
\* finishes without an error and reports the resolved date.
C9_ReserveUpdateReturnsAsofAndRows ==
    (call.op = "update_reserve_ratio_only" /\ call.asof \in Dates) =>
        /\ call.status = "ok"
        /\ call.error = <<>>
        /\ call.ret >= 0

(***************************************************************************)
(* init_db: schema creation and evolution (storage/db.py)                  *)
(***************************************************************************)
\* The columns CREATE TABLE IF NOT EXISTS snapshot_metrics declares
SnapshotSchemaColumns ==
    {"asof_date", "ticker", "name", "market", "close", "mcap", "avg_value_20d", "turnover_20d",
     "per", "pbr", "div", "dps", "eps", "bps", "roe_proxy", "eps_positive", "sma20", "sma50",
     "sma200", "dist_sma20", "dist_sma50", "dist_sma200", "high_52w", "low_52w", "pos_52w",
     "near_52w_high_ratio", "vol_20d", "ret_1w", "ret_1m", "ret_3m", "ret_6m", "ret_1y",
     "eps_cagr_5y", "eps_yoy_q", "calc_version", "created_at"}

\* The columns init_db passes to _ensure_column, in order
EnsuredColumns == <<"dps", "near_52w_high_ratio", "eps_cagr_5y", "eps_yoy_q">>

\* The step of init_db after the _ensure_column of EnsuredColumns[k]
StepAfter(column) ==
    LET k == CHOOSE i \in 1..Len(EnsuredColumns) : EnsuredColumns[i] = column
    IN IF k = Len(EnsuredColumns) THEN "commit" ELSE EnsuredColumns[k + 1]

\* snapshot_metrics as older schemas created it: without some of the columns
\* added since; {} is a database without the table
OlderSchemas ==
    {SnapshotSchemaColumns \ missing :
        missing \in SUBSET {EnsuredColumns[k] : k \in 1..Len(EnsuredColumns)}}

\* init_db is entered: get_connection
InitDb ==
    /\ init_pc \in {"idle", "done"}
    /\ txn.op = "idle"
    /\ init_pc' = "executescript"
    /\ call' = [NoCall EXCEPT !.op = "init_db", !.table = "snapshot_metrics",
                              !.status = "running", !.before = snapshot_metrics,
                              !.db_empty = DbEmpty]
    /\ UNCHANGED <<dbVars, table_info, now, txn, lastWrite, observed>>

\* conn.executescript(SCHEMA): CREATE TABLE IF NOT EXISTS leaves an existing
\* table as it is
ExecuteSchema ==
    /\ init_pc = "executescript"
    /\ table_info' = IF table_info = {} THEN SnapshotSchemaColumns ELSE table_info
    /\ init_pc' = EnsuredColumns[1]
    /\ UNCHANGED <<dbVars, now, txn, call, lastWrite, observed>>

\* _ensure_column(conn, "snapshot_metrics", column, "REAL"): ALTER TABLE ADD
\* COLUMN when PRAGMA table_info does not list the column; the rows stay
_ensure_column(column) ==
    /\ init_pc = column
    /\ table_info' = IF column \notin table_info THEN table_info \cup {column} ELSE table_info
    /\ init_pc' = StepAfter(column)
    /\ UNCHANGED <<dbVars, now, txn, call, lastWrite, observed>>

\* conn.commit() and the end of the with block
CommitInitDb ==
    /\ init_pc = "commit"
    /\ init_pc' = "done"
    /\ call' = [call EXCEPT !.status = "ok"]
    /\ UNCHANGED <<dbVars, table_info, now, txn, lastWrite, observed>>

InitOldSchema ==
    /\ InitScraperIdle
    /\ InitAuxIdle
    /\ ticker_master = {}
    /\ prices_daily = {}
    /\ cap_daily = {}
    /\ fundamental_daily = {}
    /\ table_info \in OlderSchemas \cup {{}}
    /\ snapshot_metrics \in IF table_info = {} THEN {{}} ELSE InitialSnapshots
    /\ now = 0
    /\ txn = IdleTxn
    /\ call = NoCall
    /\ lastWrite = <<>>
    /\ observed = NoObservation
    /\ init_pc = "idle"

NextInitDb ==
    \/ InitDb /\ UNCHANGED <<scraperVars, auxVars>>
    \/ ExecuteSchema /\ UNCHANGED <<scraperVars, auxVars>>
    \/ \E k \in 1..Len(EnsuredColumns) : _ensure_column(EnsuredColumns[k]) /\ UNCHANGED <<scraperVars, auxVars>>
    \/ CommitInitDb /\ UNCHANGED <<scraperVars, auxVars>>

SpecInitDb == InitOldSchema /\ [][NextInitDb]_vars

\* C10: after init_db has run on a database whose snapshot_metrics table an
\* older schema created, the table has the columns dps, near_52w_high_ratio,
\* eps_cagr_5y, eps_yoy_q and reserve_ratio, and every row from before
\* init_db is still there with its values.
C10_InitDbAddsColumnsKeepsRows ==
    (call.op = "init_db" /\ call.status = "ok" /\ init_pc = "done") =>
        /\ {"dps", "near_52w_high_ratio", "eps_cagr_5y", "eps_yoy_q", "reserve_ratio"}
              \subseteq table_info
        /\ snapshot_metrics = call.before

(***************************************************************************)
(* PykrxCollector._retry (collectors/pykrx_client.py)                      *)
(***************************************************************************)
MaxRetries == 3
\* sleep_seconds in tenths of a second (the default 0.5 is 5)
SleepSeconds == {5, 10}
\* What one call of the wrapped function does: it returns a value or raises
FnOutcomes == {[ok |-> TRUE, value |-> "frame"], [ok |-> TRUE, value |-> "empty"],
               [ok |-> FALSE, value |-> "timeout"], [ok |-> FALSE, value |-> "decode"]}

RECURSIVE Pow2(_)
Pow2(n) == IF n = 0 THEN 1 ELSE 2 * Pow2(n - 1)

\* The loop sleeps on every failure, the last one included.
AlwaysSleeps(idx, retries) == TRUE

\* if idx + 1 < self.retries
AnotherAttemptRemains(idx, retries) == idx + 1 < retries

\* time.sleep(self.sleep_seconds * (2**idx))
Backoff(sleep_seconds, idx) == sleep_seconds * Pow2(idx)

\* raise RuntimeError(f"pykrx call failed after retries: {last_error}")
RetriesExhausted(last_error) == <<"RuntimeError", "pykrx call failed after retries", last_error>>

InitRetry ==
    /\ InitScraperIdle
    /\ InitStoreIdle
    /\ run = IdleRun
    /\ fetch = IdleFetch
    /\ metric = IdleMetric
    /\ calc = IdleCalc
    /\ \E n \in 0..MaxRetries, sl \in SleepSeconds :
          retry = [pc |-> "loop", retries |-> n, sleep_seconds |-> sl, idx |-> 0,
                   attempts |-> <<>>, sleeps |-> <<>>, last_error |-> None,
                   result |-> None, error |-> None]

\* for idx in range(self.retries): try: return fn(...); except: last_error = exc
RetryAttempt(outcome) ==
    /\ retry.pc = "loop"
    /\ retry.idx < retry.retries
    /\ retry' = IF outcome.ok
                THEN [retry EXCEPT !.attempts = Append(@, outcome), !.pc = "returned",
                                   !.result = Some(outcome.value)]
                ELSE [retry EXCEPT !.attempts = Append(@, outcome),
                                   !.last_error = Some(outcome.value),
                                   !.pc = IF AnotherAttemptRemains(retry.idx, retry.retries)
                                          THEN "sleep" ELSE "loop",
                                   !.idx = IF AnotherAttemptRemains(retry.idx, retry.retries)
                                           THEN @ ELSE @ + 1]
    /\ UNCHANGED <<scraperVars, storeVars, run, fetch, metric, calc>>

\* time.sleep(...) and the next iteration
RetrySleep ==
    /\ retry.pc = "sleep"
    /\ retry' = [retry EXCEPT !.sleeps = Append(@, Backoff(retry.sleep_seconds, retry.idx)),
                              !.idx = @ + 1, !.pc = "loop"]
    /\ UNCHANGED <<scraperVars, storeVars, run, fetch, metric, calc>>

\* the loop is over: raise RuntimeError from last_error
RetryRaise ==
    /\ retry.pc = "loop"
    /\ retry.idx >= retry.retries
    /\ retry' = [retry EXCEPT !.pc = "raised", !.error = Some(RetriesExhausted(retry.last_error))]
    /\ UNCHANGED <<scraperVars, storeVars, run, fetch, metric, calc>>

NextRetry ==
    \/ \E outcome \in FnOutcomes : RetryAttempt(outcome)
    \/ RetrySleep
    \/ RetryRaise

SpecRetry == InitRetry /\ [][NextRetry]_vars

Failures(attempts) == SelectSeq(attempts, LAMBDA a : ~a.ok)

\* C16: _retry calls the wrapped function at most `retries` times, returns
\* the result of the first attempt that succeeds and calls no more, sleeps
\* sleep_seconds * 2^i after failed attempt i (0-based) only when another
\* attempt remains, and raises once `retries` attempts have all failed.
C16_RetryDiscipline ==
    /\ Len(retry.attempts) <= retry.retries
    /\ \A i \in 1..Len(retry.attempts) - 1 : ~retry.attempts[i].ok
    /\ retry.pc = "returned" <=>
          (retry.attempts # <<>> /\ retry.attempts[Len(retry.attempts)].ok)
    /\ retry.pc = "returned" =>
          /\ retry.result = Some(retry.attempts[Len(retry.attempts)].value)
          /\ retry.error = None
    /\ retry.pc = "raised" =>
          /\ Len(retry.attempts) = retry.retries
          /\ \A i \in 1..Len(retry.attempts) : ~retry.attempts[i].ok
          /\ retry.error # None
          /\ retry.result = None
    /\ Len(retry.sleeps) <= Len(Failures(retry.attempts))
    /\ \A i \in 1..Len(retry.sleeps) :
          /\ retry.sleeps[i] = retry.sleep_seconds * Pow2(i - 1)
          /\ i < retry.retries
    /\ retry.pc \in {"returned", "raised"} =>
          Len(retry.sleeps) = IF retry.pc = "returned" THEN Len(retry.attempts) - 1
                              ELSE IF retry.retries = 0 THEN 0 ELSE retry.retries - 1

\* Two failures, two sleeps (0.5 s and 1.0 s), then a third call that returns
C16_Witness ==
    /\ retry.pc = "returned"
    /\ retry.retries = 3
    /\ Len(retry.attempts) = 3
    /\ retry.sleeps = <<5, 10>>

(***************************************************************************)
(* Per-ticker outcomes of the crawl (checked under SpecScraper)            *)
(***************************************************************************)
TickerStatuses == {"success", "fetch_fail", "no_data", "parse_error", "marker_missing"}

\* C14: no outcome for a single ticker aborts latest_reserve_ratio: every
\* ticker that was collected is recorded as success, fetch_fail, no_data,
\* parse_error or marker_missing, and the crawl goes on to return a frame.
C14_NoTickerAbortsCrawl ==
    /\ scr_pc \in {"collecting", "returned"}
    /\ \A i \in Futures :
          task[i].pc \in {"finished", "consumed"} => task[i].status \in TickerStatuses

(***************************************************************************)
(* NaverRatioCollector._fetch_html (collectors/naver_ratio_client.py)      *)
(***************************************************************************)
\* The body of a response: the text and the encoding its bytes are in
\* ("binary": bytes no codec of the list decodes)
Raw(text, encoding) == [text |-> text, encoding |-> encoding]
KnownCodecs == {"utf-8", "euc-kr", "cp949"}
\* the charset of the Content-Type header: absent, or a label
Charsets == {None, Some("utf-8"), Some("euc-kr"), Some("x-unknown")}

\* raw.decode(encoding) succeeds (cp949 extends euc-kr)
CanDecode(raw, encoding) ==
    \/ raw.encoding = encoding
    \/ raw.encoding = "euc-kr" /\ encoding = "cp949"

\* raw.decode("utf-8", errors="ignore"): the undecodable bytes are dropped,
\* the Korean row marker with them; ASCII text stays
Garbled(text) == [Page(FALSE, <<>>, <<>>) EXCEPT !.blocked_markers = text.blocked_markers]

\* _decode_response: content_charset first, then utf-8, euc-kr, cp949; only
\* UnicodeDecodeError moves on to the next encoding
RECURSIVE DecodeWith(_, _)
DecodeWith(raw, encodings) ==
    IF encodings = <<>> THEN [raised |-> None, html |-> Some(Garbled(raw.text))]
    ELSE IF Head(encodings) \notin KnownCodecs
         THEN [raised |-> Some("LookupError"), html |-> None]
    ELSE IF CanDecode(raw, Head(encodings)) THEN [raised |-> None, html |-> Some(raw.text)]
    ELSE DecodeWith(raw, Tail(encodings))

_decode_response(raw, content_charset) ==
    DecodeWith(raw, content_charset \o <<"utf-8", "euc-kr", "cp949">>)

\* What urlopen(...) / resp.read() does on one attempt
FetchPages == {PageValue, PageNoMarker, BlockedPage}
UrlopenOutcomes ==
    {[kind |-> "response", raw |-> Raw(t, e), charset |-> c, exc |-> "none"] :
        t \in FetchPages, e \in {"utf-8", "binary"}, c \in Charsets}
    \cup {[kind |-> "raise", raw |-> Raw(PageNoMarker, "utf-8"), charset |-> None, exc |-> x] :
            x \in {"URLError", "TimeoutError", "OSError", "HTTPException"}}
\* except (URLError, TimeoutError, OSError)
CaughtByFetch == {"URLError", "TimeoutError", "OSError"}

\* _collect_one: `if not html` gives fetch_fail, else the status of the extraction
CollectStatus(html) ==
    IF html = None THEN "fetch_fail"
    ELSE LET r == _extract_latest_reserve_ratio_with_status(html[1])
         IN IF r.ratio = None THEN r.status ELSE "success"

InitFetch ==
    /\ InitScraperIdle
    /\ InitStoreIdle
    /\ run = IdleRun
    /\ retry = IdleRetry
    /\ metric = IdleMetric
    /\ calc = IdleCalc
    /\ \E n \in 0..MaxRetries, sl \in SleepSeconds :
          fetch = [pc |-> "loop", retries |-> n, sleep_seconds |-> sl, idx |-> 0,
                   attempts |-> <<>>, sleeps |-> <<>>, last_error |-> None,
                   result |-> None, raised |-> None, status |-> "pending"]

\* A failed attempt: last_error is set, sleep when another attempt remains
FailedAttempt(f, how, error) ==
    [f EXCEPT !.attempts = Append(@, how), !.last_error = Some(error),
              !.pc = IF f.idx + 1 < f.retries THEN "sleep" ELSE "loop",
              !.idx = IF f.idx + 1 < f.retries THEN @ ELSE @ + 1]

\* One iteration of `for idx in range(self.retries)`
FetchAttempt(outcome) ==
    /\ fetch.pc = "loop"
    /\ fetch.idx < fetch.retries
    /\ fetch' =
         IF outcome.kind = "raise"
         THEN IF outcome.exc \in CaughtByFetch
              THEN FailedAttempt(fetch, "error", outcome.exc)
              ELSE [fetch EXCEPT !.attempts = Append(@, "raised"), !.pc = "raised",
                                 !.raised = Some(outcome.exc)]
         ELSE LET d == _decode_response(outcome.raw, outcome.charset)
              IN IF d.raised # None
                 THEN [fetch EXCEPT !.attempts = Append(@, "raised"), !.pc = "raised",
                                    !.raised = d.raised]
                 ELSE IF _is_blocked_response(d.html[1])
                      THEN FailedAttempt(fetch, "blocked", "blocked-response")
                      ELSE [fetch EXCEPT !.attempts = Append(@, "html"), !.pc = "returned",
                                         !.result = d.html]
    /\ UNCHANGED <<scraperVars, storeVars, run, retry, metric, calc>>

\* time.sleep(self.sleep_seconds * (2**idx))
FetchSleep ==
    /\ fetch.pc = "sleep"
    /\ fetch' = [fetch EXCEPT !.sleeps = Append(@, fetch.sleep_seconds * Pow2(fetch.idx)),
                              !.idx = @ + 1, !.pc = "loop"]
    /\ UNCHANGED <<scraperVars, storeVars, run, retry, metric, calc>>

\* The loop is over: logger.warning and return None
FetchGivesUp ==
    /\ fetch.pc = "loop"
    /\ fetch.idx >= fetch.retries
    /\ fetch' = [fetch EXCEPT !.pc = "returned", !.result = None]
    /\ UNCHANGED <<scraperVars, storeVars, run, retry, metric, calc>>

\* _collect_one classifies what _fetch_html returned
FetchClassified ==
    /\ fetch.pc = "returned"
    /\ fetch' = [fetch EXCEPT !.pc = "classified", !.status = CollectStatus(fetch.result)]
    /\ UNCHANGED <<scraperVars, storeVars, run, retry, metric, calc>>

NextFetch ==
    \/ \E outcome \in UrlopenOutcomes : FetchAttempt(outcome)
    \/ FetchSleep
    \/ FetchGivesUp
    \/ FetchClassified

SpecFetch == InitFetch /\ [][NextFetch]_vars

FailedOrBlocked(attempts) == SelectSeq(attempts, LAMBDA a : a \in {"error", "blocked"})

\* C15: in _fetch_html a blocked response counts as a failed attempt like a
\* transport error: at most `retries` attempts are made, the first
\* non-blocked response is returned at once, the same backoff follows a
\* blocked response and an error, and when every attempt failed or was
\* blocked no HTML is returned and the ticker is recorded as fetch_fail.
C15_BlockedCountsAsFailedAttempt ==
    /\ Len(fetch.attempts) <= fetch.retries
    /\ \A i \in 1..Len(fetch.attempts) - 1 : fetch.attempts[i] \in {"error", "blocked"}
    /\ \A i \in 1..Len(fetch.attempts) :
          fetch.attempts[i] = "html" =>
             /\ i = Len(fetch.attempts)
             /\ fetch.pc \in {"returned", "classified"}
             /\ fetch.result # None
             /\ fetch.result[1].blocked_markers \cap BlockedMarkers = {}
    /\ \A i \in 1..Len(fetch.sleeps) :
          /\ fetch.sleeps[i] = fetch.sleep_seconds * Pow2(i - 1)
          /\ i < fetch.retries
    /\ (fetch.pc \in {"returned", "classified"}
        /\ Len(FailedOrBlocked(fetch.attempts)) = Len(fetch.attempts)) =>
          /\ Len(fetch.attempts) = fetch.retries
          /\ fetch.result = None
          /\ Len(fetch.sleeps) = IF fetch.retries = 0 THEN 0 ELSE fetch.retries - 1
          /\ fetch.pc = "classified" => fetch.status = "fetch_fail"

\* A blocked response, a transport error, then a page that is returned
C15_Witness ==
    /\ fetch.retries = 3
    /\ fetch.attempts = <<"blocked", "error", "html">>
    /\ fetch.sleeps = <<5, 10>>
    /\ fetch.pc = "classified"
    /\ fetch.status = "success"

(***************************************************************************)
(* PykrxCollector: the frames of the market-data source                    *)
(***************************************************************************)
\* colmap of _normalize_ohlcv: the candidate column names of each target, in
\* order (the Korean names of the source are romanised)
colmap ==
    [open |-> <<"siga", "Open", "open">>,
     high |-> <<"goga", "High", "high">>,
     low |-> <<"jeoga", "Low", "low">>,
     close |-> <<"jongga", "Close", "close">>,
     volume |-> <<"georaeryang", "Volume", "volume">>,
     value |-> <<"georaedaegeum", "georaedaegeum(won)", "georaedaegeum(baengmanwon)",
                 "Value", "value">>]
RequiredTargets == <<"open", "high", "low", "close", "volume">>

InSeq(x, seq) == \E i \in 1..Len(seq) : seq[i] = x

\* _pick_column: the first candidate that is a column of the frame
_pick_column(columns, candidates) ==
    LET present == SelectSeq(candidates, LAMBDA name : InSeq(name, columns))
    IN IF present = <<>> THEN None ELSE Some(present[1])

MissingRequired(columns) ==
    SelectSeq(RequiredTargets, LAMBDA target : _pick_column(columns, colmap[target]) = None)

\* KeyError(f"Missing required OHLCV columns: {missing_required}. available={list(df.columns)}")
MissingColumnsError(missing_required, columns) ==
    [type |-> "KeyError", missing |-> missing_required, available |-> columns]

\* The value of the picked column, NA without one
Picked(cells, src) == IF src = None THEN None ELSE Some(cells[src[1]])

\* The row of the out frame: the required targets from their picked columns,
\* value from its column or NA
NormalizedRow(columns, row) ==
    [open |-> row.cells[_pick_column(columns, colmap.open)[1]],
     high |-> row.cells[_pick_column(columns, colmap.high)[1]],
     low |-> row.cells[_pick_column(columns, colmap.low)[1]],
     close |-> row.cells[_pick_column(columns, colmap.close)[1]],
     volume |-> row.cells[_pick_column(columns, colmap.volume)[1]],
     value |-> Picked(row.cells, _pick_column(columns, colmap.value)),
     date |-> row.date]

\* A normalisation that fills every column it does not find with 0.
_normalize_ohlcv_lenient(df) ==
    [raised |-> None,
     rows |-> [n \in 1..Len(df.rows) |->
                 [t \in {"open", "high", "low", "close", "volume"} |->
                     IF _pick_column(df.columns, colmap[t]) = None THEN 0
                     ELSE df.rows[n].cells[_pick_column(df.columns, colmap[t])[1]]]
                 @@ [value |-> Picked(df.rows[n].cells, _pick_column(df.columns, colmap.value)),
                     date |-> df.rows[n].date]]]

\* _normalize_ohlcv: the five required targets from their picked columns, or
\* KeyError naming the targets without a column; value is optional
_normalize_ohlcv(df) ==
    IF MissingRequired(df.columns) # <<>>
    THEN [raised |-> Some(MissingColumnsError(MissingRequired(df.columns), df.columns)),
          rows |-> <<>>]
    ELSE [raised |-> None,
          rows |-> [n \in 1..Len(df.rows) |-> NormalizedRow(df.columns, df.rows[n])]]

\* df.empty: no row or no column
FrameEmpty(df) == df.rows = <<>> \/ df.columns = <<>>

\* ohlcv: an empty source frame gives an empty frame before any
\* normalisation; otherwise the normalised rows with date and ticker
ohlcv(df, ticker) ==
    IF FrameEmpty(df) THEN [raised |-> None, rows |-> <<>>]
    ELSE LET norm == _normalize_ohlcv(df)
         IN IF norm.raised # None THEN norm
            ELSE [raised |-> None,
                  rows |-> [n \in 1..Len(norm.rows) |-> norm.rows[n] @@ [ticker |-> ticker]]]

\* A frame of get_market_ohlcv_by_date: its columns and one row per date
SourceFrame(columns, dates, px) ==
    [columns |-> columns,
     rows |-> [n \in 1..Len(dates) |->
                 [date |-> dates[n],
                  cells |-> [c \in {columns[i] : i \in 1..Len(columns)} |-> px + n]]]]
KoreanColumns == <<"siga", "goga", "jeoga", "jongga", "georaeryang", "georaedaegeum">>
EnglishColumns == <<"Open", "High", "Low", "Close", "Volume">>
NoCloseColumns == <<"siga", "goga", "jeoga", "georaeryang">>

(***************************************************************************)
(* DailyBatchPipeline.run (pipelines/daily_batch.py)                       *)
(***************************************************************************)
\* What the collector calls of run() give: None is the RuntimeError of
\* _retry after its last attempt, a sequence is the rows of the frame
TickerOutcomes ==
    {None, Some(<<>>),
     Some(<<TickerRecord("005930", "Samsung", "KOSPI", 1)>>),
     Some(<<TickerRecord("005930", "Samsung", "KOSPI", 1),
            TickerRecord("000660", "Hynix", "KOSDAQ", 1)>>)}
OhlcvOutcomes(asof) ==
    {None,
     Some(SourceFrame(<<>>, <<>>, 0)),
     Some(SourceFrame(NoCloseColumns, <<>>, 0)),
     Some(SourceFrame(KoreanColumns, <<asof>>, 10)),
     Some(SourceFrame(EnglishColumns, <<1>>, 20)),
     Some(SourceFrame(NoCloseColumns, <<asof>>, 10))}
TradingDateOutcomes(asof) ==
    {None, Some(<<>>), Some(<<asof>>)} \cup (IF asof > 1 THEN {Some(<<asof - 1, asof>>)} ELSE {})
\* get_market_cap and get_market_fundamental list every ticker of the
\* exchange on the date, "950110" being one that tickers() does not list
CapOutcomes(d) ==
    {None, Some(<<>>),
     Some(<<CapRecord(d, "005930", Some(1000), Some(7))>>),
     Some(<<CapRecord(d, "005930", Some(1000), Some(7)),
            CapRecord(d, "950110", Some(300), None)>>)}
FundamentalOutcomes(d) ==
    {None, Some(<<>>),
     Some(<<FundamentalRecord(d, "005930", Some(4), Some(40))>>),
     Some(<<FundamentalRecord(d, "005930", Some(4), Some(40)),
            FundamentalRecord(d, "950110", None, None)>>)}

StageError(type) == [type |-> type, missing |-> <<>>, available |-> <<>>]
RetryError == StageError("RuntimeError")

\* A calendar date as a day ordinal that keeps date order: 372 slots to the
\* year and 31 to the month, so that a month is ordinal \div 31 and a
\* quarter ordinal \div 93
DateOf(y, m, d) == y * 372 + (m - 1) * 31 + (d - 1)
YearOf(dt) == dt \div 372
MonthPeriod(dt) == dt \div 31
QuarterPeriod(dt) == dt \div 93
IsLeapYear(y) == (y % 4 = 0 /\ y % 100 # 0) \/ y % 400 = 0

\* asof_ts - pd.DateOffset(years=years): the same month and day, 29 February
\* falling back to the 28th in a year without one
YearsBefore(dt, years) ==
    LET y == YearOf(dt) - years
        within == dt % 372
    IN IF within = 59 /\ ~IsLeapYear(y) THEN y * 372 + 58 ELSE y * 372 + within

\* ts.groupby(ts.dt.to_period("M")).max(): the last trading day of every month
LastOfEachMonth(ts) ==
    {dt \in ts : \A other \in ts : MonthPeriod(other) = MonthPeriod(dt) => other <= dt}

\* ts.groupby(ts.dt.to_period("Q")).max(): the last trading day of every quarter
LastOfEachQuarter(ts) ==
    {dt \in ts : \A other \in ts : QuarterPeriod(other) = QuarterPeriod(dt) => other <= dt}

\* No anchor of earlier years at all.
NoYearAnchors(asof, ts) == {}

\* for years in range(1, 6): the last trading day up to asof - years, if any
YearAnchors(asof, ts) ==
    {dt \in ts : \E years \in 1..5 :
        /\ dt <= YearsBefore(asof, years)
        /\ \A other \in ts : other <= YearsBefore(asof, years) => other <= dt}

\* sorted(dates)
RECURSIVE Sorted(_)
Sorted(S) == IF S = {} THEN <<>> ELSE Sorted(S \ {MaxOf(S)}) \o <<MaxOf(S)>>

\* _fundamental_backfill_dates: [asof] without trading dates; else the last
\* trading day of each month and quarter, the last trading day, and the
\* anchors one to five years back, sorted
_fundamental_backfill_dates(asof, trading_dates) ==
    IF trading_dates = <<>> THEN <<asof>>
    ELSE LET ts == {trading_dates[i] : i \in 1..Len(trading_dates)}
         IN Sorted(LastOfEachMonth(ts) \cup LastOfEachQuarter(ts)
                   \cup {MaxOf(ts)} \cup YearAnchors(asof, ts))

\* An exception that is logged and passed over: run() goes on.
SwallowStageError(r, error) ==
    [r EXCEPT !.raised = Some(error),
              !.pc = IF r.pc \in {"tickers", "prices"} THEN "trading_dates"
                     ELSE IF r.pc \in {"trading_dates", "cap"} THEN "fund_dates"
                     ELSE IF r.pc \in {"fund_dates", "fundamental"} THEN "read"
                     ELSE IF r.pc = "session" /\ r.stage # "snapshot" THEN "read"
                     ELSE "failed"]

\* run() has no try block: an exception of any call leaves run() at once
OnStageError(r, error) ==
    [r EXCEPT !.raised = Some(error), !.pc = "failed", !.error = Some(error)]

Logged(r, stage, op) == [r EXCEPT !.log = Append(@, <<stage, op>>)]

\* run() after an upsert_* call has returned n
AfterUpsert(r, n) ==
    CASE r.stage = "tickers" ->
           IF r.tickers = <<>>
           THEN OnStageError([r EXCEPT !.counts.tickers = n], StageError("KeyError"))
           ELSE [r EXCEPT !.counts.tickers = n, !.pc = "prices", !.stage = "prices",
                          !.queue = [i \in 1..Len(r.tickers) |-> r.tickers[i].ticker]]
      [] r.stage = "prices" ->
           [r EXCEPT !.counts.prices = @ + n, !.queue = Tail(@),
                     !.pc = IF Tail(r.queue) = <<>> THEN "trading_dates" ELSE "prices"]
      [] r.stage = "cap" ->
           [r EXCEPT !.counts.cap = @ + n, !.queue = Tail(@),
                     !.pc = IF Tail(r.queue) = <<>> THEN "fund_dates" ELSE "cap"]
      [] r.stage = "fundamental" ->
           [r EXCEPT !.counts.fundamental = @ + n, !.queue = Tail(@),
                     !.pc = IF Tail(r.queue) = <<>> THEN "read" ELSE "fundamental"]
      [] r.stage = "snapshot" ->
           [r EXCEPT !.counts.snapshot = n, !.pc = "done"]

StageTable(stage) ==
    CASE stage = "tickers" -> "ticker_master"
      [] stage = "prices" -> "prices_daily"
      [] stage = "cap" -> "cap_daily"
      [] stage = "fundamental" -> "fundamental_daily"
      [] stage = "snapshot" -> "snapshot_metrics"

\* run(asof_date): dt is the argument, else recent_business_day()
RunStart(asof_arg, business_day) ==
    /\ run.pc = "idle"
    /\ txn.op = "idle"
    /\ LET dt == IF asof_arg # None THEN asof_arg ELSE business_day
           fresh == [pc |-> "tickers", asof |-> IF dt = None THEN 0 ELSE dt[1],
                     stage |-> "tickers", queue |-> <<>>, pending |-> <<>>, tickers |-> <<>>,
                     log |-> <<>>, raised |-> None, error |-> None,
                     counts |-> [tickers |-> 0, prices |-> 0, cap |-> 0, fundamental |-> 0,
                                 snapshot |-> 0],
                     last_ohlcv |-> None, seen |-> None]
       IN run' = IF dt = None THEN OnStageError(fresh, RetryError) ELSE fresh
    /\ UNCHANGED <<scraperVars, storeVars, fetch, retry, metric, calc>>

\* tickers = self.collector.tickers()
CollectTickers(outcome) ==
    /\ run.pc = "tickers"
    /\ run' = IF outcome = None
              THEN OnStageError(Logged(run, "tickers", "collect"), RetryError)
              ELSE [Logged(run, "tickers", "collect") EXCEPT
                       !.tickers = outcome[1], !.pending = outcome[1], !.pc = "upsert"]
    /\ UNCHANGED <<scraperVars, storeVars, fetch, retry, metric, calc>>

\* with db_session(...) inside a call made by run(); the calls of one run
\* fall within one tick of CURRENT_TIMESTAMP
OpenSession(op, table, asof_date, records, work) ==
    [op |-> op, caller |-> "run", table |-> table, asof |-> asof_date, rest |-> records,
     records |-> records, work |-> work, before |-> TableRows(table)]

\* self.repo.upsert_*(frame): an empty frame returns 0 at once, any other
\* opens the session
RunUpsert ==
    /\ run.pc = "upsert"
    /\ txn.op = "idle"
    /\ IF run.pending = <<>>
       THEN /\ run' = AfterUpsert(run, 0)
            /\ UNCHANGED txn
       ELSE /\ txn' = OpenSession("upsert", StageTable(run.stage), 0, run.pending,
                                  TableRows(StageTable(run.stage)))
            /\ run' = [Logged(run, run.stage, "begin") EXCEPT !.pc = "session"]
    /\ UNCHANGED <<scraperVars, dbVars, table_info, now, call, lastWrite, observed, init_pc,
                   fetch, retry, metric, calc>>

\* ohlcv = self.collector.ohlcv(price_from_dt, dt, ticker)
CollectOhlcv(outcome) ==
    /\ run.pc = "prices"
    /\ LET r == Logged(run, "prices", "collect")
       IN run' =
            IF outcome = None THEN OnStageError(r, RetryError)
            ELSE LET got == ohlcv(outcome[1], Head(run.queue))
                     noted == [r EXCEPT !.last_ohlcv =
                                  Some([source |-> outcome[1],
                                        before |-> <<ticker_master, prices_daily, cap_daily,
                                                     fundamental_daily, snapshot_metrics>>])]
                 IN IF got.raised # None THEN OnStageError(noted, got.raised[1])
                    ELSE [noted EXCEPT !.pending = got.rows, !.pc = "upsert"]
    /\ UNCHANGED <<scraperVars, storeVars, fetch, retry, metric, calc>>

\* trading_dates = self.collector.trading_dates(price_from_dt, dt)
CollectTradingDates(outcome) ==
    /\ run.pc = "trading_dates"
    /\ LET r == [Logged(run, "cap", "collect") EXCEPT !.stage = "cap"]
       IN run' = IF outcome = None THEN OnStageError(r, RetryError)
                 ELSE [r EXCEPT !.queue = outcome[1],
                                !.pc = IF outcome[1] = <<>> THEN "fund_dates" ELSE "cap"]
    /\ UNCHANGED <<scraperVars, storeVars, fetch, retry, metric, calc>>

\* self.collector.market_cap(trading_dt)
CollectCap(outcome) ==
    /\ run.pc = "cap"
    /\ LET r == Logged(run, "cap", "collect")
       IN run' = IF outcome = None THEN OnStageError(r, RetryError)
                 ELSE [r EXCEPT !.pending = outcome[1], !.pc = "upsert"]
    /\ UNCHANGED <<scraperVars, storeVars, fetch, retry, metric, calc>>

\* fundamental_trading_dates = self.collector.trading_dates(...);
\* fund_dates = self._fundamental_backfill_dates(dt, fundamental_trading_dates)
CollectFundDates(outcome) ==
    /\ run.pc = "fund_dates"
    /\ LET r == [Logged(run, "fundamental", "collect") EXCEPT !.stage = "fundamental"]
       IN run' = IF outcome = None THEN OnStageError(r, RetryError)
                 ELSE [r EXCEPT !.queue = _fundamental_backfill_dates(run.asof, outcome[1]),
                                !.pc = "fundamental"]
    /\ UNCHANGED <<scraperVars, storeVars, fetch, retry, metric, calc>>

\* self.collector.fundamental(fdt)
CollectFundamental(outcome) ==
    /\ run.pc = "fundamental"
    /\ LET r == Logged(run, "fundamental", "collect")
       IN run' = IF outcome = None THEN OnStageError(r, RetryError)
                 ELSE [r EXCEPT !.pending = outcome[1], !.pc = "upsert"]
    /\ UNCHANGED <<scraperVars, storeVars, fetch, retry, metric, calc>>

\* get_price_window, get_daily_join, get_fundamental_window, build_snapshot,
\* then replace_snapshot opens its session and deletes the rows of asof
ReadAndBuild ==
    /\ run.pc = "read"
    /\ txn.op = "idle"
    /\ LET snapshot == build_snapshot(get_price_window(run.asof, lookback_days),
                                      get_daily_join(run.asof),
                                      get_fundamental_window(run.asof), run.asof)
       IN /\ txn' = OpenSession("replace_snapshot", "snapshot_metrics", run.asof, snapshot,
                                DeleteSnapshot(snapshot_metrics, run.asof))
          /\ run' = [Logged(Logged(run, "snapshot", "read"), "snapshot", "begin") EXCEPT
                        !.stage = "snapshot", !.pc = "session", !.pending = snapshot,
                        !.seen = Some([ticker_master |-> ticker_master,
                                       prices_daily |-> prices_daily,
                                       cap_daily |-> cap_daily,
                                       fundamental_daily |-> fundamental_daily])]
    /\ UNCHANGED <<scraperVars, dbVars, table_info, now, call, lastWrite, observed, init_pc,
                   fetch, retry, metric, calc>>

\* the session of the call commits and the call returns its row count
RunCommit ==
    /\ run.pc = "session"
    /\ CommitSession
    /\ run' = AfterUpsert(Logged(run, run.stage, "commit"), Len(txn.records))
    /\ UNCHANGED <<scraperVars, fetch, retry, metric, calc>>

\* the session of the call raises
RunSessionFails ==
    /\ run.pc = "session"
    /\ SessionFails
    /\ run' = OnStageError(run, StageError("sqlite3.Error"))
    /\ UNCHANGED <<scraperVars, fetch, retry, metric, calc>>

\* The caches run() starts on: as init_db created it, or with an earlier day
CachesBeforeRun ==
    {[ticker_master |-> {}, prices_daily |-> {}, snapshot_metrics |-> {}],
     [ticker_master |-> StoredRows("ticker_master",
                                   {TickerRecord("005930", "Samsung", "KOSPI", 1)}),
      prices_daily |-> {},
      snapshot_metrics |-> StoredRows("snapshot_metrics",
                                      {SnapshotRecord(1, "005930", "Samsung", 10, Some(1000))})]}

InitRun ==
    /\ InitScraperIdle
    /\ \E c \in CachesBeforeRun :
          /\ ticker_master = c.ticker_master
          /\ prices_daily = c.prices_daily
          /\ snapshot_metrics = c.snapshot_metrics
    /\ cap_daily = {}
    /\ fundamental_daily = {}
    /\ table_info = {}
    /\ now = 0
    /\ txn = IdleTxn
    /\ call = NoCall
    /\ lastWrite = <<>>
    /\ observed = NoObservation
    /\ init_pc = "done"
    /\ run = IdleRun
    /\ fetch = IdleFetch
    /\ retry = IdleRetry
    /\ metric = IdleMetric
    /\ calc = IdleCalc

NextRun ==
    \/ \E a \in AsofArgs, b \in BusinessDays : RunStart(a, b)
    \/ \E o \in TickerOutcomes : CollectTickers(o)
    \/ RunUpsert
    \/ run.pc = "prices" /\ \E o \in OhlcvOutcomes(run.asof) : CollectOhlcv(o)
    \/ run.pc = "trading_dates" /\ \E o \in TradingDateOutcomes(run.asof) : CollectTradingDates(o)
    \/ run.pc = "cap" /\ \E o \in CapOutcomes(Head(run.queue)) : CollectCap(o)
    \/ run.pc = "fund_dates" /\ \E o \in TradingDateOutcomes(run.asof) : CollectFundDates(o)
    \/ run.pc = "fundamental" /\ \E o \in FundamentalOutcomes(Head(run.queue)) : CollectFundamental(o)
    \/ ReadAndBuild
    \/ ExecuteRow /\ UNCHANGED <<scraperVars, auxVars>>
    \/ RunCommit
    \/ RunSessionFails

SpecRun == InitRun /\ [][NextRun]_vars

(***************************************************************************)
(* Claims about run()                                                      *)
(***************************************************************************)
\* The upserts of this run that have committed are all still stored
CommittedRowsStored ==
    \A k \in DOMAIN lastWrite :
        \E r \in TableRows(k[1]) :
            /\ PrimaryKey(k[1], r) = k[2]
            /\ NonTimestamp(k[1], r) = lastWrite[k]

ReplaceSnapshotCalled(r) == \E n \in 1..Len(r.log) : r.log[n] = <<"snapshot", "begin">>

RunFailedBeforeSnapshot == run.pc # "idle" /\ run.raised # None /\ run.stage # "snapshot"

\* C11: when a collector call or an upsert raises during run(), run() ends
\* with that error, replace_snapshot is never called, and every row the
\* earlier upserts committed is still stored.
C11_FailureAbortsRunKeepsCommitted ==
    RunFailedBeforeSnapshot =>
        /\ run.pc = "failed"
        /\ run.error = run.raised
        /\ ~ReplaceSnapshotCalled(run)
        /\ txn.op = "idle"
        /\ CommittedRowsStored

\* a price upsert fails after the ticker upsert has committed rows
C11_Witness ==
    /\ RunFailedBeforeSnapshot
    /\ run.pc = "failed"
    /\ run.stage = "prices"
    /\ run.error = Some(StageError("sqlite3.Error"))
    /\ lastWrite # <<>>
    /\ ticker_master # {}

\* The stages of run() in the order of its code
StageRank(stage) ==
    CASE stage = "tickers" -> 1
      [] stage = "prices" -> 2
      [] stage = "cap" -> 3
      [] stage = "fundamental" -> 4
      [] stage = "snapshot" -> 5

\* The windowed reads saw the row of every committed upsert
ReadsSawCommittedRows ==
    \A k \in DOMAIN lastWrite :
        \E r \in run.seen[1][k[1]] :
            /\ PrimaryKey(k[1], r) = k[2]
            /\ NonTimestamp(k[1], r) = lastWrite[k]

\* C12: the operations of run() follow the stage order tickers, prices, cap,
\* fundamental, reads with metrics, replace_snapshot; a session opened by a
\* stage has committed before any later operation, no session is open
\* while run() is outside a repository call, and the windowed reads see
\* every row the upserts wrote.
C12_StagesInOrderAndDurable ==
    run.pc # "idle" =>
        /\ \A n \in 1..Len(run.log) - 1 :
              /\ StageRank(run.log[n][1]) <= StageRank(run.log[n + 1][1])
              /\ run.log[n][2] = "begin" => run.log[n + 1] = <<run.log[n][1], "commit">>
              /\ run.log[n][2] = "read" => run.log[n + 1] = <<"snapshot", "begin">>
        /\ run.pc \notin {"session", "failed"} => txn.op = "idle"
        /\ run.seen # None => ReadsSawCommittedRows

\* a run that went through all stages, wrote in each and read the rows
C12_Witness ==
    /\ run.pc = "done"
    /\ \A stage \in {"tickers", "prices", "cap", "fundamental", "snapshot"} :
          \E n \in 1..Len(run.log) : run.log[n] = <<stage, "commit">>
    /\ run.seen # None
    /\ run.seen[1].prices_daily # {}
    /\ run.seen[1].cap_daily # {}
    /\ run.seen[1].fundamental_daily # {}
    /\ run.counts.snapshot > 0

\* The last frame get_market_ohlcv_by_date gave lacks a required column
LastOhlcvLacksRequired ==
    /\ run.pc # "idle"
    /\ run.last_ohlcv # None
    /\ MissingRequired(run.last_ohlcv[1].source.columns) # <<>>

\* run() ended with the KeyError naming the missing targets and the
\* columns of the frame, and the tables are as they were before the call
FatalMissingColumns ==
    /\ run.pc = "failed"
    /\ run.error = Some(MissingColumnsError(MissingRequired(run.last_ohlcv[1].source.columns),
                                            run.last_ohlcv[1].source.columns))
    /\ run.error[1].missing # <<>>
    /\ run.error[1].available = run.last_ohlcv[1].source.columns
    /\ <<ticker_master, prices_daily, cap_daily, fundamental_daily, snapshot_metrics>>
          = run.last_ohlcv[1].before

\* C13 as stated: every OHLCV frame without a candidate name for a required
\* column ends the run with the error naming the missing target and the
\* observed columns, and no row is upserted.
C13_AnyFrameLackingColumnIsFatal == LastOhlcvLacksRequired => FatalMissingColumns

\* C13: an OHLCV frame that holds at least one row and one column and has
\* no candidate name for a required column ends the run with the error
\* naming the missing target and the observed columns, and no row is
\* upserted; an empty frame is taken as no data and raises nothing.
C13_NonEmptyFrameLackingColumnIsFatal ==
    /\ (LastOhlcvLacksRequired /\ ~FrameEmpty(run.last_ohlcv[1].source)) => FatalMissingColumns
    /\ (LastOhlcvLacksRequired /\ FrameEmpty(run.last_ohlcv[1].source)) =>
          \A e \in {run.raised[i] : i \in 1..Len(run.raised)} : e.missing = <<>>

\* a frame with a row and no close column arrives after tickers were stored
C13_Witness ==
    /\ LastOhlcvLacksRequired
    /\ ~FrameEmpty(run.last_ohlcv[1].source)
    /\ run.pc = "failed"
    /\ run.error[1].type = "KeyError"
    /\ InSeq("close", run.error[1].missing)
    /\ ticker_master # {}

TickersOf(tbl) == {r.ticker : r \in tbl}

\* run() has gone through its ticker, price, cap and fundamental stages
CollectionStagesDone ==
    \/ run.pc \in {"read", "done"}
    \/ run.pc \in {"session", "failed"} /\ run.stage = "snapshot"

\* C17: after a run() that completed its collection stages, every ticker of
\* prices_daily, cap_daily, fundamental_daily and snapshot_metrics is a
\* ticker of ticker_master, whatever tickers the market-cap and
\* fundamentals sources returned.
C17_EveryTickerInTickerMaster ==
    CollectionStagesDone =>
        TickersOf(prices_daily) \cup TickersOf(cap_daily) \cup TickersOf(fundamental_daily)
            \cup TickersOf(snapshot_metrics) \subseteq TickersOf(ticker_master)

(***************************************************************************)
(* run() followed by rebuild_snapshot_only: the writers of the snapshot    *)
(***************************************************************************)
RunAtRest == run.pc \in {"idle", "done", "failed"}

NextSnapshotWriters ==
    \/ NextRun
    \/ RunAtRest /\ \E a \in AsofArgs : RebuildSnapshotOnly(a) /\ UNCHANGED <<scraperVars, auxVars>>
    \/ RunAtRest /\ CommitSession /\ UNCHANGED <<scraperVars, auxVars>>
    \/ RunAtRest /\ SessionFails /\ UNCHANGED <<scraperVars, auxVars>>

SpecSnapshotWriters == InitRun /\ [][NextSnapshotWriters]_vars

\* The date of the ticker's most recent price row up to asof_date
LatestPriceDate(ticker, asof_date) ==
    LET dates == {p.date : p \in {q \in prices_daily : q.ticker = ticker /\ q.date <= asof_date}}
    IN IF dates = {} THEN None ELSE Some(MaxOf(dates))

SnapshotWritten ==
    /\ call.op = "replace_snapshot"
    /\ call.status = "ok"
    /\ call.caller \in {"run", "rebuild_snapshot_only"}

\* C18: every snapshot row run() or rebuild_snapshot_only writes for as-of
\* date A is of a ticker whose most recent price row up to A is dated A,
\* has asof_date = A and calc_version = CALC_VERSION; a ticker whose latest
\* price row is older than A has no snapshot row of A afterwards.
C18_SnapshotRowsOnlyForTickersPricedAtAsof ==
    SnapshotWritten =>
        /\ \A n \in 1..Len(call.records) :
              /\ LatestPriceDate(call.records[n].ticker, call.asof) = Some(call.asof)
              /\ call.records[n].asof_date = call.asof
              /\ call.records[n].calc_version = CALC_VERSION
        /\ \A r \in snapshot_metrics :
              r.asof_date = call.asof =>
                  /\ LatestPriceDate(r.ticker, call.asof) = Some(call.asof)
                  /\ r.calc_version = CALC_VERSION

\* a snapshot of date 2 was written with a row for one ticker while another
\* ticker's latest price row is of date 1
C18_Witness ==
    /\ SnapshotWritten
    /\ call.asof = 2
    /\ call.records # <<>>
    /\ \E t \in TickersOf(prices_daily) : LatestPriceDate(t, 2) = Some(1)

(***************************************************************************)
(* build_snapshot: the rolling and return metrics of one ticker            *)
(* (features/metrics.py)                                                   *)
(***************************************************************************)
MaxRows == 254

\* The window of every rolling metric and the periods of every return
RollingWindows ==
    [sma20 |-> 20, sma50 |-> 50, sma200 |-> 200, avg_value_20d |-> 20,
     high_52w |-> 252, low_52w |-> 252]
ReturnPeriods == [ret_1w |-> 5, ret_1m |-> 21, ret_3m |-> 63, ret_6m |-> 126, ret_1y |-> 252]
MetricWindows == RollingWindows @@ ReturnPeriods

\* The closes of a ticker's window, oldest first: positive prices, with the
\* NaN of a coerced cell where the pattern puts one
NullPatterns == {"none", "first", "last"}
Column(n, pattern, base) ==
    [i \in 1..n |->
        IF pattern = "all" \/ (pattern = "first" /\ i = 1) \/ (pattern = "last" /\ i = n)
        THEN None
        ELSE Some(base + ((i * 7) % 13))]

RECURSIVE SumOf(_)
SumOf(cells) ==
    IF cells = <<>> THEN 0
    ELSE IF Len(cells) = 1 THEN cells[1][1]
    ELSE SumOf(SubSeq(cells, 1, Len(cells) \div 2))
         + SumOf(SubSeq(cells, Len(cells) \div 2 + 1, Len(cells)))
MinOf(S) == CHOOSE x \in S : \A y \in S : x <= y

LastCells(column, n) == SubSeq(column, Len(column) - n + 1, Len(column))
NonNull(cells) == SelectSeq(cells, LAMBDA c : c # None)

Aggregate(cells, agg) ==
    CASE agg = "mean" -> SumOf(cells) \div Len(cells)
      [] agg = "max" -> MaxOf({cells[i][1] : i \in 1..Len(cells)})
      [] agg = "min" -> MinOf({cells[i][1] : i \in 1..Len(cells)})

\* A rolling window that aggregates whatever observations it holds.
RollingMinPeriodsOne(column, n, agg) ==
    LET cells == NonNull(IF Len(column) >= n THEN LastCells(column, n) ELSE column)
    IN IF cells = <<>> THEN None ELSE Some(Aggregate(cells, agg))

\* Series.rolling(n).agg() at the last row: min_periods is n, so the value
\* is NaN unless the last n rows exist and are all non-null
Rolling(column, n, agg) ==
    IF Len(column) < n THEN None
    ELSE LET cells == NonNull(LastCells(column, n))
         IN IF Len(cells) < n THEN None ELSE Some(Aggregate(cells, agg))

\* fill_method="pad": every NaN takes the last value before it
ForwardFilled(column) ==
    [i \in 1..Len(column) |->
        LET known == {j \in 1..i : column[j] # None}
        IN IF known = {} THEN None ELSE column[MaxOf(known)]]

\* A change over n rows counted with the last one: the last value against
\* the value n - 1 rows earlier.
pct_change_within(column, n, fill_method) ==
    LET filled == IF fill_method = "pad" THEN ForwardFilled(column) ELSE column
        last == Len(column)
    IN IF last - n < 0 THEN None
       ELSE IF filled[last] = None \/ filled[last - n + 1] = None THEN None
       ELSE Some(((filled[last][1] - filled[last - n + 1][1]) * 10000)
                 \div filled[last - n + 1][1])

\* Series.pct_change(n) at the last row, in hundredths of a percent: the
\* last value against the value n rows earlier, NaN without such a row
pct_change(column, n, fill_method) ==
    LET filled == IF fill_method = "pad" THEN ForwardFilled(column) ELSE column
        last == Len(column)
    IN IF last - n < 1 THEN None
       ELSE IF filled[last] = None \/ filled[last - n] = None THEN None
       ELSE Some(((filled[last][1] - filled[last - n][1]) * 10000) \div filled[last - n][1])

\* The metric columns of g.iloc[-1]
GroupMetrics(close, value, fill_method) ==
    [sma20 |-> Rolling(close, RollingWindows.sma20, "mean"),
     sma50 |-> Rolling(close, RollingWindows.sma50, "mean"),
     sma200 |-> Rolling(close, RollingWindows.sma200, "mean"),
     avg_value_20d |-> Rolling(value, RollingWindows.avg_value_20d, "mean"),
     high_52w |-> Rolling(close, RollingWindows.high_52w, "max"),
     low_52w |-> Rolling(close, RollingWindows.low_52w, "min"),
     ret_1w |-> pct_change(close, ReturnPeriods.ret_1w, fill_method),
     ret_1m |-> pct_change(close, ReturnPeriods.ret_1m, fill_method),
     ret_3m |-> pct_change(close, ReturnPeriods.ret_3m, fill_method),
     ret_6m |-> pct_change(close, ReturnPeriods.ret_6m, fill_method),
     ret_1y |-> pct_change(close, ReturnPeriods.ret_1y, fill_method)]

\* The default fill_method of pct_change is "pad" or None with the pandas
\* release installed
FillMethods == {"pad", "none"}

\* A ticker's group of the price window: at least its last row, at most
\* MaxRows rows (below the lookback_days of get_price_window)
InitMetrics ==
    /\ InitScraperIdle
    /\ InitStoreIdle
    /\ run = IdleRun
    /\ fetch = IdleFetch
    /\ retry = IdleRetry
    /\ calc = IdleCalc
    /\ \E n \in 1..MaxRows, cp \in NullPatterns, vp \in {"none", "all"}, fm \in FillMethods :
          metric = [pc |-> "group", rows |-> n, close |-> Column(n, cp, 100),
                    value |-> Column(n, vp, 5000), close_nulls |-> cp, fill_method |-> fm,
                    out |-> None]

\* the body of the loop over price_window.groupby("ticker")
ComputeGroupMetrics ==
    /\ metric.pc = "group"
    /\ metric' = [metric EXCEPT !.pc = "computed",
                                !.out = Some(GroupMetrics(metric.close, metric.value,
                                                          metric.fill_method))]
    /\ UNCHANGED <<scraperVars, storeVars, run, fetch, retry, calc>>

NextMetrics == ComputeGroupMetrics

SpecMetrics == InitMetrics /\ [][NextMetrics]_vars

\* C19: a rolling or return metric of a ticker is null whenever the
\* ticker's price window holds fewer rows than the metric's window size
\* (20/50/200 for the SMAs, 20 for avg_value_20d, 252 for high_52w and
\* low_52w, 5/21/63/126/252 for the returns).
C19_FewerRowsThanWindowIsNull ==
    metric.pc = "computed" =>
        \A name \in DOMAIN MetricWindows :
            metric.rows < MetricWindows[name] => metric.out[1][name] = None

\* a window of 100 rows: sma200, the 52-week extremes and the long returns
\* are null while sma20, sma50 and the short returns are computed
C19_Witness ==
    /\ metric.pc = "computed"
    /\ metric.rows = 100
    /\ metric.close_nulls = "none"
    /\ metric.out[1].sma200 = None
    /\ metric.out[1].ret_1y = None
    /\ metric.out[1].sma50 # None
    /\ metric.out[1].ret_3m # None

NonNullCloses == metric.pc = "computed" /\ metric.close_nulls = "none"

YearMetricsNonNull ==
    \A name \in {"sma20", "sma50", "sma200", "high_52w", "low_52w"} :
        metric.out[1][name] # None

\* C20 as stated: with non-null closes ret_1y is null only if the window
\* holds fewer than 252 rows, and with 252 or more rows sma20, sma50,
\* sma200, high_52w, low_52w and ret_1y are all non-null.
C20_Ret1yNullOnlyBelow252Rows ==
    NonNullCloses =>
        /\ metric.out[1].ret_1y = None => metric.rows < 252
        /\ metric.rows >= 252 => YearMetricsNonNull /\ metric.out[1].ret_1y # None

\* C20: with non-null closes ret_1y is null exactly when the window holds
\* fewer than 253 rows (the 252-row change needs the row 252 rows before
\* the last); with 252 or more rows sma20, sma50, sma200, high_52w and
\* low_52w are non-null, and with 253 or more ret_1y is non-null too.
C20_Ret1yNullOnlyBelow253Rows ==
    NonNullCloses =>
        /\ metric.out[1].ret_1y = None <=> metric.rows < ReturnPeriods.ret_1y + 1
        /\ metric.rows >= RollingWindows.high_52w => YearMetricsNonNull

\* 253 rows of non-null closes: every one of the six metrics is computed
C20_Witness ==
    /\ NonNullCloses
    /\ metric.rows = 253
    /\ YearMetricsNonNull
    /\ metric.out[1].ret_1y # None

(***************************************************************************)
(* _extract_latest_reserve_ratio_with_status on its own                    *)
(* (collectors/naver_ratio_client.py)                                      *)
(***************************************************************************)
MaxCells == 2

\* Numeric literals of a page: 133,443.80  120,000.00  100,000.00  1,234.56
\* 0.00  -5.00  -1,000.00  -1,000.01
PageLiterals ==
    {Lit(FALSE, <<133, 443>>, 80), Lit(FALSE, <<120, 0>>, 0), Lit(FALSE, <<100, 0>>, 0),
     Lit(FALSE, <<1, 234>>, 56), Lit(FALSE, <<0>>, 0), Lit(TRUE, <<5>>, 0),
     Lit(TRUE, <<1, 0>>, 0), Lit(TRUE, <<1, 0>>, 1)}

\* The <td> cells of a located row: empty, "-", text without a number, or
\* one numeric literal
RowCells ==
    {Cell("empty", <<>>), Cell("dash", <<>>), Cell("text", <<>>)}
        \cup {Cell("text", <<l>>) : l \in PageLiterals}

\* The number matches around one marker position of the fallback
MarkerSnippets ==
    {[tag_numbers |-> <<>>, nearby_numbers |-> <<>>]}
        \cup {[tag_numbers |-> <<l>>, nearby_numbers |-> <<>>] : l \in PageLiterals}
        \cup {[tag_numbers |-> <<Lit(TRUE, <<5>>, 0)>>, nearby_numbers |-> <<l>>] :
                 l \in PageLiterals}

\* Pages with a located row of up to MaxCells cells, and pages without one
\* whose markers (none, one or both) are found by html.find
ParserPages ==
    {Page(TRUE, cells, <<>>) : cells \in SeqsUpTo(RowCells, MaxCells)}
        \cup {Page(FALSE, <<>>, sn) : sn \in SeqsUpTo(MarkerSnippets, 1)}
        \cup {Page(FALSE, <<>>, <<a, [tag_numbers |-> <<>>, nearby_numbers |-> <<b>>]>>) :
                 a \in MarkerSnippets, b \in {Lit(FALSE, <<1, 234>>, 56), Lit(TRUE, <<5>>, 0)}}

InitParser ==
    /\ InitScraperIdle
    /\ InitStoreIdle
    /\ run = IdleRun
    /\ fetch = IdleFetch
    /\ retry = IdleRetry
    /\ metric = IdleMetric
    /\ \E html \in ParserPages : calc = [pc |-> "html", html |-> html, out |-> None]

\* ratio, status = self._extract_latest_reserve_ratio_with_status(html)
ExtractWithStatus ==
    /\ calc.pc = "html"
    /\ calc' = [calc EXCEPT !.pc = "extracted",
                            !.out = Some(_extract_latest_reserve_ratio_with_status(calc.html))]
    /\ UNCHANGED <<scraperVars, storeVars, run, fetch, retry, metric>>

NextParser == ExtractWithStatus

SpecParser == InitParser /\ [][NextParser]_vars

\* The row of test_extract_latest_reserve_ratio_with_status_parses_large_value
LargeValueRow ==
    Page(TRUE, <<Cell("text", <<Lit(FALSE, <<133, 443>>, 80)>>),
                 Cell("text", <<Lit(FALSE, <<120, 0>>, 0)>>)>>, <<>>)

\* C21: for a located row whose cells are "133,443.80" and "120,000.00" the
\* extraction returns (120000.0, "success").
C21_LargeValueParsed ==
    (calc.pc = "extracted" /\ calc.html = LargeValueRow) =>
        calc.out = Some([ratio |-> Some(12000000), status |-> "success"])

\* The located rows whose cells are all empty or a single "-"
BlankRowPages ==
    {Page(TRUE, cells, <<>>) :
        cells \in SeqsUpTo({Cell("empty", <<>>), Cell("dash", <<>>)}, MaxCells) \ {<<>>}}

C23_FailedUpsertLeavesTableAsBefore ==
    (call.op = "upsert" /\ call.status = "error") =>
        /\ TableRows(call.table) = call.before
        /\ \A n \in 1..Len(call.records) :
              \A r \in TableRows(call.table) \ call.before :
                  PrimaryKey(call.table, r) # PrimaryKey(call.table, call.records[n])

\* a batch of two rows failed after its first row, which was a new key
C23_Witness ==
    /\ call.op = "upsert"
    /\ call.status = "error"
    /\ Len(call.records) = 2
    /\ call.executed = 1
    /\ ~HasKey(call.table, call.before, call.records[1])
    /\ txn.op = "idle"

(***************************************************************************)
(* Properties of the extraction (checked under SpecParser)                 *)
(***************************************************************************)
\* The literals of a sequence as numbers in hundredths, those outside
\* [-1000.00, 100000.00] left out, in their order
KeptInOrder(literals) ==
    SelectSeq([n \in 1..Len(literals) |-> ParseFloat(literals[n])],
              LAMBDA v : 0 - 100000 <= v /\ v <= 10000000)

\* The outcome the kept values call for
ExpectedOf(kept) ==
    IF kept = <<>> THEN [ratio |-> None, status |-> "parse_error"]
    ELSE IF \E k \in 1..Len(kept) : kept[k] > 0
    THEN LET k == CHOOSE i \in 1..Len(kept) : kept[i] > 0 /\ \A j \in 1..(i - 1) : kept[j] <= 0
         IN [ratio |-> Some(kept[k]), status |-> "success"]
    ELSE [ratio |-> Some(kept[1]), status |-> "success"]

\* The literals the fallback gathers: per marker, the tag numbers and then
\* the numbers after the marker
GatheredNearMarkers(snippets) ==
    Concat([n \in 1..Len(snippets) |->
               snippets[n].tag_numbers \o snippets[n].nearby_numbers])

RowIsBlank(html) ==
    html.cells # <<>> /\ \A n \in 1..Len(html.cells) : html.cells[n].kind \in {"empty", "dash"}

TradingDayPool ==
    {DateOf(2019, 3, 28), DateOf(2019, 3, 29), DateOf(2021, 12, 30), DateOf(2023, 2, 28),
     DateOf(2023, 3, 28), DateOf(2023, 3, 31), DateOf(2024, 2, 28), DateOf(2024, 2, 29)}
AsofPool == {DateOf(2024, 2, 29), DateOf(2024, 3, 29), DateOf(2023, 3, 31)}

\* A list of the days in descending order, the last of them listed twice
RECURSIVE Descending(_)
Descending(S) == IF S = {} THEN <<>> ELSE <<MaxOf(S)>> \o Descending(S \ {MaxOf(S)})
TradingDateLists ==
    {Descending({dt \in days : dt <= asof_dt}) : days \in SUBSET TradingDayPool, asof_dt \in AsofPool}
        \cup {Descending(days) \o <<MaxOf(days)>> : days \in (SUBSET TradingDayPool) \ {{}}}

InitBackfill ==
    /\ InitScraperIdle
    /\ InitStoreIdle
    /\ run = IdleRun
    /\ fetch = IdleFetch
    /\ retry = IdleRetry
    /\ metric = IdleMetric
    /\ \E a \in AsofPool, list \in TradingDateLists :
          /\ \A n \in 1..Len(list) : list[n] <= a
          /\ calc = [pc |-> "dates", asof |-> a, trading_dates |-> list, out |-> None]

\* fund_dates = self._fundamental_backfill_dates(dt, fundamental_trading_dates)
BackfillDates ==
    /\ calc.pc = "dates"
    /\ calc' = [calc EXCEPT !.pc = "anchored",
                            !.out = Some(_fundamental_backfill_dates(calc.asof,
                                                                     calc.trading_dates))]
    /\ UNCHANGED <<scraperVars, storeVars, run, fetch, retry, metric>>

NextBackfill == BackfillDates

SpecBackfill == InitBackfill /\ [][NextBackfill]_vars

LatestUpTo(ts, limit) ==
    LET upto == {dt \in ts : dt <= limit} IN IF upto = {} THEN None ELSE Some(MaxOf(upto))

\* C25: for a non-empty trading-date list the result is strictly ascending,
\* holds only dates of the list, and contains the last trading day of every
\* calendar month and quarter present, the last trading date, and for each
\* k in 1..5 the latest trading date up to asof - k years when there is
\* one; for an empty list it is [asof].
C25_BackfillDates ==
    calc.pc = "anchored" =>
        LET out == calc.out[1]
            ts == {calc.trading_dates[n] : n \in 1..Len(calc.trading_dates)}
            got == {out[n] : n \in 1..Len(out)}
        IN IF calc.trading_dates = <<>> THEN out = <<calc.asof>>
           ELSE /\ \A n \in 1..(Len(out) - 1) : out[n] < out[n + 1]
                /\ got \subseteq ts
                /\ \A dt \in ts :
                      (\A other \in ts : MonthPeriod(other) = MonthPeriod(dt) => other <= dt)
                          => dt \in got
                /\ \A dt \in ts :
                      (\A other \in ts : QuarterPeriod(other) = QuarterPeriod(dt) => other <= dt)
                          => dt \in got
                /\ MaxOf(ts) \in got
                /\ \A k \in 1..5 :
                      LatestUpTo(ts, YearsBefore(calc.asof, k)) # None
                          => LatestUpTo(ts, YearsBefore(calc.asof, k))[1] \in got

\* asof 2024-03-29 with trading days 2023-03-28, 2023-03-31 and 2024-02-29:
\* 2023-03-28 is in the result as the one-year anchor only
C25_Witness ==
    /\ calc.pc = "anchored"
    /\ calc.asof = DateOf(2024, 3, 29)
    /\ {calc.trading_dates[n] : n \in 1..Len(calc.trading_dates)}
          = {DateOf(2023, 3, 28), DateOf(2023, 3, 31), DateOf(2024, 2, 29)}
    /\ calc.out[1] = <<DateOf(2023, 3, 28), DateOf(2023, 3, 31), DateOf(2024, 2, 29)>>

(***************************************************************************)
(* PykrxCollector.recent_business_day (collectors/pykrx_client.py)         *)
(***************************************************************************)
\* for _ in range(10)
ProbeDays == 10

DaysInMonth(y, m) ==
    IF m = 2 THEN (IF IsLeapYear(y) THEN 29 ELSE 28)
    ELSE IF m \in {4, 6, 9, 11} THEN 30 ELSE 31

\* dt - timedelta(days=1)
PreviousDay(dt) ==
    LET y == YearOf(dt)
        m == ((dt % 372) \div 31) + 1
        d == (dt % 31) + 1
    IN IF d > 1 THEN dt - 1
       ELSE IF m > 1 THEN DateOf(y, m - 1, DaysInMonth(y, m - 1))
       ELSE DateOf(y - 1, 12, 31)

RECURSIVE DaysBefore(_, _)
DaysBefore(dt, n) == IF n = 0 THEN dt ELSE DaysBefore(PreviousDay(dt), n - 1)

\* The candidate is probed again instead of the day before it.
StaysOnDay(dt) == dt

\* candidate -= timedelta(days=1)
NextCandidate(dt) == PreviousDay(dt)

\* What a probe of the reference ticker gives: a frame without rows, a
\* frame with rows, or the RuntimeError of _retry
ProbeOutcomes == {"empty", "rows", "RuntimeError"}
Todays == {DateOf(2024, 3, 5), DateOf(2023, 3, 3), DateOf(2024, 1, 4), DateOf(2024, 6, 20)}

InitBusinessDay ==
    /\ InitScraperIdle
    /\ InitStoreIdle
    /\ run = IdleRun
    /\ fetch = IdleFetch
    /\ retry = IdleRetry
    /\ metric = IdleMetric
    /\ \E today \in Todays :
          calc = [pc |-> "probe", today |-> today, candidate |-> today, probes |-> <<>>,
                  result |-> None, error |-> None]

\* one turn of the loop: probe the candidate, return it or step a day back
ProbeCandidate(outcome) ==
    /\ calc.pc = "probe"
    /\ Len(calc.probes) < ProbeDays
    /\ LET probed == [calc EXCEPT !.probes = Append(@, [day |-> calc.candidate,
                                                        outcome |-> outcome])]
       IN calc' = CASE outcome = "rows" ->
                         [probed EXCEPT !.pc = "returned", !.result = Some(calc.candidate)]
                    [] outcome = "RuntimeError" ->
                         [probed EXCEPT !.pc = "raised",
                                          !.error = Some(<<"pykrx", "call", "failed", "after", "retries">>)]
                    [] outcome = "empty" ->
                         [probed EXCEPT !.candidate = NextCandidate(calc.candidate)]
    /\ UNCHANGED <<scraperVars, storeVars, run, fetch, retry, metric>>

\* raise RuntimeError("Could not determine business day")
NoBusinessDay ==
    /\ calc.pc = "probe"
    /\ Len(calc.probes) >= ProbeDays
    /\ calc' = [calc EXCEPT !.pc = "raised", !.error = Some(BusinessDayMessage)]
    /\ UNCHANGED <<scraperVars, storeVars, run, fetch, retry, metric>>

NextBusinessDay ==
    \/ \E outcome \in ProbeOutcomes : ProbeCandidate(outcome)
    \/ NoBusinessDay

\* the loop body and the raise after it are straight-line code: a step that
\* can be taken is taken
SpecBusinessDay == InitBusinessDay /\ [][NextBusinessDay]_vars /\ WF_vars(NextBusinessDay)

BusinessDayEnded == calc.pc \in {"returned", "raised"}

\* Probes go from today to earlier calendar days, one day each
ProbesWalkBack ==
    /\ Len(calc.probes) <= ProbeDays
    /\ \A n \in 1..Len(calc.probes) : calc.probes[n].day = DaysBefore(calc.today, n - 1)
    /\ \A n \in 1..(Len(calc.probes) - 1) : calc.probes[n].outcome = "empty"

\* C26: recent_business_day probes today and then successively earlier
\* calendar days, returns the first day whose frame is non-empty, probes at
\* most 10 days, fails when all 10 are empty, and always terminates.
C26_RecentBusinessDay ==
    /\ [](calc.pc # "idle" =>
            /\ ProbesWalkBack
            /\ calc.pc = "returned" =>
                  /\ calc.probes[Len(calc.probes)].outcome = "rows"
                  /\ calc.result = Some(calc.probes[Len(calc.probes)].day)
            /\ (Len(calc.probes) = ProbeDays
                /\ calc.probes[ProbeDays].outcome = "empty"
                /\ BusinessDayEnded) =>
                  calc.pc = "raised" /\ calc.error = Some(BusinessDayMessage))
    /\ <>BusinessDayEnded

\* today is 2024-03-05 and only the tenth probe, of 2024-02-25, has rows
C26_Witness ==
    /\ calc.pc = "returned"
    /\ calc.today = DateOf(2024, 3, 5)
    /\ Len(calc.probes) = ProbeDays
    /\ calc.result = Some(DateOf(2024, 2, 25))

(***************************************************************************)
(* PykrxCollector.fundamental (collectors/pykrx_client.py)                 *)
(***************************************************************************)
\* for offset in range(1, 8)
FallbackDays == 7

\* Frames of stock.get_market_fundamental, indexed by ticker
MarketFundamentalRow(t, eps, bps) == [ticker |-> t, EPS |-> eps, BPS |-> bps]
MarketFundamentalFrames ==
    {<<MarketFundamentalRow("005930", Some(4), Some(40))>>,
     <<MarketFundamentalRow("005930", Some(5), Some(41)),
       MarketFundamentalRow("000660", None, None)>>}
FundamentalQueryOutcomes == {None, Some(<<>>)} \cup {Some(f) : f \in MarketFundamentalFrames}
FundamentalTargets ==
    {DateOf(2024, 3, 31), DateOf(2024, 3, 3), DateOf(2024, 1, 1), DateOf(2023, 12, 29)}

\* Every row carries the date that was asked for, whichever day answered.
StampedWithTarget(part, dt, query_dt) ==
    [i \in 1..Len(part) |-> FundamentalRecord(dt, part[i].ticker, part[i].EPS, part[i].BPS)]

\* rename, reset_index, frame["date"] = query_dt.strftime("%Y-%m-%d")
StampedFrame(part, dt, query_dt) ==
    [i \in 1..Len(part) |-> FundamentalRecord(query_dt, part[i].ticker, part[i].EPS, part[i].BPS)]

InitFundamental ==
    /\ InitScraperIdle
    /\ InitStoreIdle
    /\ run = IdleRun
    /\ fetch = IdleFetch
    /\ retry = IdleRetry
    /\ metric = IdleMetric
    /\ \E dt \in FundamentalTargets :
          calc = [pc |-> "query", dt |-> dt, offset |-> 0, queried |-> <<>>,
                  out |-> None, raised |-> FALSE]

\* one query of get_market_fundamental, for dt or for dt - timedelta(days=offset)
QueryFundamental(outcome) ==
    /\ calc.pc = "query"
    /\ calc.offset <= FallbackDays
    /\ LET candidate == DaysBefore(calc.dt, calc.offset)
           asked == [calc EXCEPT !.queried = Append(@, [day |-> candidate,
                                                        frame |-> outcome])]
       IN calc' = IF outcome = None
                  THEN [asked EXCEPT !.pc = "raised", !.raised = TRUE]
                  ELSE IF outcome[1] # <<>>
                  THEN [asked EXCEPT !.pc = "returned",
                                     !.out = Some(StampedFrame(outcome[1], calc.dt, candidate))]
                  ELSE [asked EXCEPT !.offset = @ + 1]
    /\ UNCHANGED <<scraperVars, storeVars, run, fetch, retry, metric>>

\* if frame.empty: return pd.DataFrame()
NoFundamentalData ==
    /\ calc.pc = "query"
    /\ calc.offset > FallbackDays
    /\ calc' = [calc EXCEPT !.pc = "returned", !.out = Some(<<>>)]
    /\ UNCHANGED <<scraperVars, storeVars, run, fetch, retry, metric>>

NextFundamental ==
    \/ \E outcome \in FundamentalQueryOutcomes : QueryFundamental(outcome)
    \/ NoFundamentalData

SpecFundamental == InitFundamental /\ [][NextFundamental]_vars

\* dt first, then dt-1, dt-2, ... in this order, every query but the last empty
QueriesWalkBack ==
    /\ Len(calc.queried) <= FallbackDays + 1
    /\ \A n \in 1..Len(calc.queried) : calc.queried[n].day = DaysBefore(calc.dt, n - 1)
    /\ \A n \in 1..(Len(calc.queried) - 1) : calc.queried[n].frame = Some(<<>>)

LastQuery == calc.queried[Len(calc.queried)]

\* C27: fundamental(dt) queries dt, then dt-1 .. dt-7 while the frame is
\* empty, stops at the first non-empty frame, stamps every returned row with
\* the date that produced the data, and returns an empty frame when all
\* eight dates are empty.
C27_FundamentalFallback ==
    calc.pc \in {"query", "returned", "raised"} /\ "queried" \in DOMAIN calc =>
       /\ QueriesWalkBack
       /\ calc.pc = "returned" =>
             IF LastQuery.frame = Some(<<>>)
             THEN Len(calc.queried) = FallbackDays + 1 /\ calc.out = Some(<<>>)
             ELSE /\ LastQuery.frame # None
                  /\ Len(calc.out[1]) = Len(LastQuery.frame[1])
                  /\ \A i \in 1..Len(calc.out[1]) :
                        /\ calc.out[1][i].date = LastQuery.day
                        /\ calc.out[1][i].ticker = LastQuery.frame[1][i].ticker
                        /\ calc.out[1][i].eps = LastQuery.frame[1][i].EPS
                        /\ calc.out[1][i].bps = LastQuery.frame[1][i].BPS

\* 2024-03-31 is asked for, Sunday and Saturday are empty, Friday 2024-03-29
\* answers and its two rows carry 2024-03-29
C27_Witness ==
    /\ calc.pc = "returned"
    /\ "queried" \in DOMAIN calc
    /\ calc.dt = DateOf(2024, 3, 31)
    /\ Len(calc.queried) = 3
    /\ calc.out # None
    /\ Len(calc.out[1]) = 2
    /\ calc.out[1][1].date = DateOf(2024, 3, 29)

(***************************************************************************)
(* Repository.get_price_window as a frame (storage/repository.py)          *)
(***************************************************************************)
MaxWindow == 3

\* ORDER BY ticker: text compared by its bytes
TickerRank(t) == CHOOSE i \in 1..Len(TickerOrder) : TickerOrder[i] = t
RowBefore(a, b) ==
    \/ TickerRank(a.ticker) < TickerRank(b.ticker)
    \/ a.ticker = b.ticker /\ a.date < b.date

\* ORDER BY ticker, date
RECURSIVE OrderedByTickerDate(_)
OrderedByTickerDate(S) ==
    IF S = {} THEN <<>>
    ELSE LET first == CHOOSE r \in S : \A o \in S \ {r} : RowBefore(r, o)
         IN <<first>> \o OrderedByTickerDate(S \ {first})

\* pd.read_sql_query(query, conn, params=(end_date, window))
PriceWindowFrame(end_date, window) == OrderedByTickerDate(get_price_window(end_date, window))

\* Tables as upsert_prices and upsert_cap leave them: one row per
\* (date, ticker)
WindowDates == 1..3
WindowTickers == {"005930", "000660"}
StoredPrice(d, t) ==
    PriceRecord(d, t, 10 * d + TickerRank(t), 100, IF d = 1 THEN Some(5) ELSE None)
PriceTables ==
    {{StoredPrice(k[1], k[2]) : k \in keys} : keys \in SUBSET (WindowDates \X WindowTickers)}
CapTables ==
    {{},
     {CapRecord(1, "005930", Some(1000), Some(7)), CapRecord(2, "005930", Some(1000), None),
      CapRecord(3, "000660", Some(300), Some(9)), CapRecord(1, "000660", Some(300), None)}}

InitPriceWindow ==
    /\ InitScraperIdle
    /\ ticker_master = {}
    /\ prices_daily \in PriceTables
    /\ cap_daily \in CapTables
    /\ fundamental_daily = {}
    /\ snapshot_metrics = {}
    /\ table_info = {}
    /\ now = 0
    /\ txn = IdleTxn
    /\ call = NoCall
    /\ lastWrite = <<>>
    /\ observed = NoObservation
    /\ init_pc = "done"
    /\ run = IdleRun
    /\ fetch = IdleFetch
    /\ retry = IdleRetry
    /\ metric = IdleMetric
    /\ \E end_date \in WindowDates, window \in 1..MaxWindow :
          calc = [pc |-> "query", end_date |-> end_date, window |-> window, out |-> None]

\* repo.get_price_window(end_date, window)
ReadPriceWindow ==
    /\ calc.pc = "query"
    /\ calc' = [calc EXCEPT !.pc = "returned",
                            !.out = Some(PriceWindowFrame(calc.end_date, calc.window))]
    /\ UNCHANGED <<scraperVars, storeVars, run, fetch, retry, metric>>

NextPriceWindow == ReadPriceWindow

SpecPriceWindow == InitPriceWindow /\ [][NextPriceWindow]_vars

AvailableDates(t, end_date) ==
    {p.date : p \in {q \in prices_daily : q.ticker = t /\ q.date <= end_date}}
ReturnedDates(out, t) == {out[i].date : i \in {j \in 1..Len(out) : out[j].ticker = t}}
CoalescedValue(d, t) ==
    LET c == {x \in cap_daily : x.date = d /\ x.ticker = t}
        p == CHOOSE q \in prices_daily : q.date = d /\ q.ticker = t
    IN IF c # {} /\ (CHOOSE x \in c : TRUE).value # None
       THEN (CHOOSE x \in c : TRUE).value ELSE p.value

\* C28: get_price_window(endDate, window) returns, per ticker, exactly the
\* min(window, available) most recent price rows dated endDate or earlier,
\* ordered by ticker and ascending date, each with the cap_daily value when
\* it is not null and the prices_daily value otherwise.
C28_PriceWindow ==
    calc.pc = "returned" /\ "window" \in DOMAIN calc =>
       LET out == calc.out[1] IN
       /\ \A t \in WindowTickers :
             LET avail == AvailableDates(t, calc.end_date)
                 got == ReturnedDates(out, t)
             IN /\ Cardinality({j \in 1..Len(out) : out[j].ticker = t})
                     = Min2(calc.window, Cardinality(avail))
                /\ got \subseteq avail
                /\ Cardinality(got) = Min2(calc.window, Cardinality(avail))
                /\ \A d \in got : \A e \in avail \ got : e < d
       /\ \A i \in 1..Len(out) : out[i].ticker \in WindowTickers
       /\ \A i \in 1..Len(out) : \A j \in (i + 1)..Len(out) : RowBefore(out[i], out[j])
       /\ \A i \in 1..Len(out) : out[i].value = CoalescedValue(out[i].date, out[i].ticker)

\* both tickers have three price rows up to date 3 and two are asked for: the
\* frame has 000660 at dates 2 and 3, then 005930 at dates 2 and 3, and the
\* value of (3, 000660) is the 9 of cap_daily
C28_Witness ==
    /\ calc.pc = "returned"
    /\ "window" \in DOMAIN calc
    /\ calc.window = 2
    /\ calc.end_date = 3
    /\ Cardinality(prices_daily) = 6
    /\ Len(calc.out[1]) = 4
    /\ calc.out[1][2].ticker = "000660"
    /\ calc.out[1][2].date = 3
    /\ calc.out[1][2].value = Some(9)
    /\ calc.out[1][3].ticker = "005930"

(***************************************************************************)
(* latest_reserve_ratio: the outcome classes of a finished crawl           *)
(***************************************************************************)
OutcomeClasses == {"success", "fetch_fail", "no_data", "parse_error", "marker_missing"}
FuturesWith(statuses) == {i \in Futures : task[i].status \in statuses}
DistinctTickers == \A i, j \in Futures : tickers[i] = tickers[j] => i = j
InFrame(t) == \E n \in 1..Len(frame) : frame[n].ticker = t

\* C29: when latest_reserve_ratio returns, every input ticker has been
\* counted once in one outcome class; for distinct tickers success +
\* fetch_fail + no_data + parse_error (marker_missing included) is the number
\* of input tickers; a ticker is in the returned frame iff it succeeded.
C29_EveryTickerCountedOnce ==
    scr_pc = "returned" =>
       /\ \A i \in Futures : task[i].pc = "consumed" /\ task[i].status \in OutcomeClasses
       /\ counters.done = Len(tickers)
       /\ counters.failed_fetch = Cardinality(FuturesWith({"fetch_fail"}))
       /\ counters.no_data = Cardinality(FuturesWith({"no_data"}))
       /\ counters.parse_error = Cardinality(FuturesWith({"parse_error", "marker_missing"}))
       /\ DistinctTickers =>
             /\ Len(rows) = Cardinality(FuturesWith({"success"}))
             /\ Len(rows) + counters.failed_fetch + counters.no_data + counters.parse_error
                  = Len(tickers)
       /\ \A i \in Futures :
             InFrame(tickers[i]) <=>
                \E j \in Futures : tickers[j] = tickers[i] /\ task[j].status = "success"

\* two distinct tickers, the first without the marker and the second parsed:
\* the frame holds the second only
C29_Witness ==
    /\ scr_pc = "returned"
    /\ Len(tickers) = 2
    /\ DistinctTickers
    /\ task[1].status = "marker_missing"
    /\ task[2].status = "success"
    /\ Len(frame) = 1
    /\ frame[1].ticker = tickers[2]
    /\ counters.parse_error = 1

(***************************************************************************)
(* The chained path of the CLI: --update-reserve-only --rebuild-snapshot   *)
(* (cli.py, checked under SpecPipeline)                                    *)
(***************************************************************************)
RebuildCommitted ==
    /\ call.op = "replace_snapshot"
    /\ call.caller = "rebuild_snapshot_only"
    /\ call.status = "ok"

\* C30: when rebuild_snapshot_only(A) runs after update_reserve_ratio_only(A),
\* the update has returned the as-of date for the rebuild to use, and the
\* snapshot rows at A after the rebuild carry the reserve_ratio the update
\* stored: the delete-and-insert of the rebuild does not erase it.
C30_RebuildKeepsReserveRatio ==
    /\ (call.op = "update_reserve_ratio_only" /\ call.asof \in Dates) =>
          call.status = "ok"
    /\ RebuildCommitted =>
          \A r \in snapshot_metrics : r.asof_date = call.asof => "reserve_ratio" \in DOMAIN r

====
